---------------------------- MODULE Spec2Model ----------------------------
(***************************************************************************)
(* Signaling control plane of the SFU server (SFUServer): the in-memory    *)
(* registry of rooms and peers, the signaling handlers with their          *)
(* suspension points on the media engine, and the engine objects           *)
(* (routers, transports, producers, consumers) the handlers create and     *)
(* close; and the RTSP bridge (RTSPBridge) that ingests camera streams.     *)
(***************************************************************************)
EXTENDS Integers, Sequences, FiniteSets, TLC

\* ------------------------------------------------------------------ bounds
NumSockets == 2
NumRoomIds == 2
NumPeerIds == 2
MaxRouters == 2
MaxPeers == 2
MaxTransports == 2
MaxProducers == 1
MaxConsumers == 2
MaxPending == 1
MaxJoinsPending == 2
NumCameras == 7
ThreeUrls == 3
MaxUrls == 2
MaxAttempts == 3
MaxTimers == 3
MaxTickProbes == 2
MaxReadyLines == 2
MaxChunks == 2

\* maxCams of RTSPBridge.start
MaxCams == 6

\* The safety timeout of checkStreamAvailable, the fallback timeout of
\* startFFmpegProcess and the period of the retry timer, in milliseconds.
ProbeTimeoutMs == 4000
LaunchTimeoutMs == 5000
RetryIntervalMs == 10000
VideoSsrcBase == 11111111
AudioSsrcBase == 22222222

Sockets == 1..NumSockets
RoomIds == 1..NumRoomIds
PeerIds == 1..NumPeerIds
Caps == {"ok", "bad"}
Cameras == 1..NumCameras

VARIABLES
    sock,       \* per channel: connection state, socket.peerId, socket.roomId
    rooms,      \* this.rooms: roomId -> room object (0 = no entry)
    peers,      \* this.peers: socket.id -> peer object (0 = no entry)
    roomObj,    \* room objects: router, peers map, producers map
    peerObj,    \* peer objects: id, socket, transports, producers, consumers
    router,     \* engine routers
    transport,  \* engine transports
    producer,   \* engine producers
    consumer,   \* engine consumers
    pending,    \* handlers suspended at an await on the engine
    last,       \* the handler step just taken and the events it emitted
    isRunning,  \* RTSPBridge.isRunning
    mainRouter, \* RTSPBridge.mainRouter: "none", "open" or "closed"
    startPc,    \* where RTSPBridge.start() is
    urls,       \* the number of camera URLs in RTSP_URLS
    env,        \* what the cameras and the engine may do, and for how long
    cams,       \* per camera: state object, attempts, timers, map entries
    host        \* the service process: engine worker, MediaSoupService.router, exit

signaling == <<sock, rooms, peers, roomObj, peerObj, router, transport, producer,
               consumer, pending, last>>

ingest == <<isRunning, mainRouter, startPc, urls, env, cams>>

vars == <<signaling, ingest, host>>

registry == <<rooms, peers, roomObj, peerObj>>
engine == <<router, transport, producer, consumer>>

\* ----------------------------------------------------------------- records
NoTask == [op |-> "none", s |-> 0, r |-> 0, p |-> 0, pobj |-> 0, robj |-> 0,
           tid |-> 0, q |-> 0, c |-> 0, caps |-> "ok"]

Task(op, s) == [NoTask EXCEPT !.op = op, !.s = s]

Event(to, ev, ids, pid) ==
    [to |-> to, ev |-> ev, ids |-> ids, peerId |-> pid, message |-> ""]

ErrorEvent(s, msg) == [Event(s, "error", {}, 0) EXCEPT !.message = msg]

\* The step a handler has just taken: the command, its channel, whether it
\* suspended ("recv") or ran to its end ("done"), and the events that reach
\* their channel (socket.emit on a closed channel delivers nothing).
Step(task, phase, out) ==
    [op |-> task.op, s |-> task.s, phase |-> phase,
     out |-> {e \in out : sock[e.to].state = "open"}]

\* state = this.routers.get(cameraId): the fields hold the attempt whose
\* object they refer to (0 = unset or null), retryTimer the timer's id.
NoState == [retryTimer |-> 0, videoTransport |-> 0, audioTransport |-> 0,
            ffmpeg |-> 0, videoProducer |-> 0, audioProducer |-> 0]

\* What the bridge holds for one camera: the state object, the attempts made
\* so far, the interval timers not cleared, per timer the number of its
\* callbacks awaiting their probe, and the camera's entries of this.ffmpegProcesses and
\* this.producers.  due and dueTicks are the attempts and callbacks that
\* were outstanding at the latest arming or firing of a timer.
NoCamera == [state |-> NoState, att |-> <<>>, timers |-> {},
             ticks |-> [t \in 1..MaxTimers |-> 0],
             due |-> {}, dueTicks |-> {}, process |-> 0, video |-> 0, audio |-> 0]

\* The exit code of a process ended by a signal (null).
Null == -1

\* One call of checkStreamAvailable, its ffprobe just spawned: the process,
\* the chunks it wrote to its standard output ("blank" is white space,
\* "text" a codec name), the errored flag, the code of its 'close' event,
\* the 4 s timer, and the value the promise was resolved with.
NewProbe == [proc |-> "running", output |-> <<>>, errored |-> FALSE, code |-> Null,
             timer |-> "pending", result |-> "none"]

\* One invocation of startRTSPStream, at its probe.  vssrc and assrc are the
\* ssrc its producers were created with (0 = none).  started is the flag of
\* startFFmpegProcess, fallback its 5 s timeout, starts the number of times
\* the launch was taken as started and lines the ready lines seen; they are
\* followed only where the launch is split into its events, and probe only
\* where the probe is.
NewAttempt == [pc |-> "probe", vt |-> "none", at |-> "none", proc |-> "none",
               vp |-> "none", ap |-> "none",
               vssrc |-> 0, assrc |-> 0,
               started |-> FALSE, fallback |-> "pending", starts |-> 0, lines |-> 0,
               probe |-> NewProbe]

RemoveAt(seq, i) == [j \in 1..(Len(seq) - 1) |-> IF j < i THEN seq[j] ELSE seq[j + 1]]

PendingOps(op) == {i \in 1..Len(pending) : pending[i].op = op}

\* ------------------------------------------------------------------ lookups
\* this.peers.get(socket.id)
PeerOf(s) == peers[s]

\* this.rooms.get(socket.roomId)
RoomOf(s) == IF sock[s].roomId = 0 THEN 0 ELSE rooms[sock[s].roomId]

\* room.peers.size
RoomSize(ro) == Cardinality({p \in PeerIds : ro.peers[p] # 0})

\* ---------------------------------------------------------- engine closing
\* router.close() closes the router's transports, transport.close() its
\* producers and consumers, producer.close() the consumers fed by it.
ClosedTransports(Rc, Tc) ==
    Tc \cup {t \in DOMAIN transport : transport[t].router \in Rc}

ClosedProducers(Rc, Tc, Pc) ==
    Pc \cup {q \in DOMAIN producer : producer[q].transport \in ClosedTransports(Rc, Tc)}

ClosedConsumers(Rc, Tc, Pc, Cc) ==
    Cc \cup {c \in DOMAIN consumer :
                \/ consumer[c].transport \in ClosedTransports(Rc, Tc)
                \/ consumer[c].producer \in ClosedProducers(Rc, Tc, Pc)}

EngineClose(Rc, Tc, Pc, Cc) ==
    /\ router' = [i \in DOMAIN router |->
                    IF i \in Rc THEN [router[i] EXCEPT !.closed = TRUE] ELSE router[i]]
    /\ transport' = [i \in DOMAIN transport |->
                    IF i \in ClosedTransports(Rc, Tc)
                    THEN [transport[i] EXCEPT !.closed = TRUE] ELSE transport[i]]
    /\ producer' = [i \in DOMAIN producer |->
                    IF i \in ClosedProducers(Rc, Tc, Pc)
                    THEN [producer[i] EXCEPT !.closed = TRUE] ELSE producer[i]]
    /\ consumer' = [i \in DOMAIN consumer |->
                    IF i \in ClosedConsumers(Rc, Tc, Pc, Cc)
                    THEN [consumer[i] EXCEPT !.closed = TRUE] ELSE consumer[i]]

\* --------------------------------------------------------------------- Init
InitSignaling ==
    /\ sock = [s \in Sockets |-> [state |-> "none", peerId |-> 0, roomId |-> 0]]
    /\ rooms = [r \in RoomIds |-> 0]
    /\ peers = [s \in Sockets |-> 0]
    /\ roomObj = <<>>
    /\ peerObj = <<>>
    /\ router = <<>>
    /\ transport = <<>>
    /\ producer = <<>>
    /\ consumer = <<>>
    /\ pending = <<>>
    /\ last = Step(NoTask, "init", {})

\* new RTSPBridge(mediasoupService)
InitBridge ==
    /\ isRunning = FALSE
    /\ mainRouter = "none"
    /\ startPc = "idle"
    /\ cams = [c \in Cameras |-> NoCamera]

\* The process once mediasoup.init() has returned in SFUServer.start(): the
\* worker is created and its 'died' handler registered; this.router is the
\* null of the constructor; reply is the latest answer of
\* GET /router-capabilities, and again what the latest call of the bridge's
\* start() after the first one did.
InitHost ==
    host = [worker |-> "alive", router |-> "none", exitTimer |-> "none",
            process |-> "running", reply |-> "none", again |-> "none"]

\* The server with RTSP_BRIDGE_ENABLED unset: start() of the bridge is not
\* called.
Init ==
    /\ InitSignaling
    /\ InitBridge
    /\ InitHost
    /\ urls = 0
    /\ env = [avail |-> [c \in Cameras |-> BOOLEAN], faults |-> TRUE, attempts |-> 0]

\* io.on('connection'): registers the handlers of a new channel.  Socket ids
\* are fresh, so channels are taken in index order.
Connect(s) ==
    /\ UNCHANGED <<ingest, host>>
    /\ sock[s].state = "none"
    /\ \A t \in Sockets : t < s => sock[t].state # "none"
    /\ sock' = [sock EXCEPT ![s].state = "open"]
    /\ last' = Step(Task("connection", s), "recv", {})
    /\ UNCHANGED <<registry, engine, pending>>

\* ---------------------------------------------------------------- join-room
\* Faulty variant: existing-producers is sent without the length check.
JoinEmitsAlways(s, ro) ==
    {Event(s, "router-rtp-capabilities", {ro.router}, 0),
     Event(s, "existing-producers", ro.producers, 0)}

\* The events handleJoinRoom emits after registering the peer.
JoinEmits(s, ro) ==
    {Event(s, "router-rtp-capabilities", {ro.router}, 0)}
        \cup (IF ro.producers # {}
              THEN {Event(s, "existing-producers", ro.producers, 0)}
              ELSE {})

\* Lines 153-176 of handleJoinRoom, run on the registry rms/robjs in which the
\* room entry for r exists.  The peer record's room and robj fields are not
\* fields of the code's peer object: they keep the roomId of the join that
\* made the peer and the room object it was put into, for the properties
\* below.
JoinBody(s, r, p, rms, robjs) ==
    LET k == Len(peerObj) + 1
        ro == rms[r]
        peer == [id |-> p, socket |-> s, transports |-> {}, producers |-> {},
                 consumers |-> {}, room |-> r, robj |-> ro]
    IN  /\ rooms' = rms
        /\ peerObj' = Append(peerObj, peer)
        /\ roomObj' = [robjs EXCEPT ![ro].peers[p] = k]
        /\ peers' = [peers EXCEPT ![s] = k]
        /\ sock' = [sock EXCEPT ![s].peerId = p, ![s].roomId = r]
        /\ last' = Step([Task("join-room", s) EXCEPT !.r = r, !.p = p, !.pobj = k,
                                                     !.robj = ro],
                        "done", JoinEmits(s, robjs[ro]))

\* Room and peer ids are names chosen by the clients: a behaviour and its
\* renamings are alike, so new names are taken in index order.
JoinsSoFar == Len(peerObj) + Cardinality(PendingOps("join-room"))

\* socket.on('join-room'): the handler runs to completion when the room
\* exists, and suspends on createRouter() when it does not.
JoinRoom(s, r, p) ==
    /\ UNCHANGED <<ingest, host>>
    /\ sock[s].state = "open"
    /\ r <= JoinsSoFar + 1
    /\ p <= JoinsSoFar + 1
    /\ Len(peerObj) + Cardinality(PendingOps("join-room")) < MaxPeers
    /\ IF rooms[r] # 0
       THEN /\ JoinBody(s, r, p, rooms, roomObj)
            /\ UNCHANGED <<engine, pending>>
       ELSE /\ Len(pending) < MaxPending
            /\ Len(router) + Cardinality(PendingOps("join-room")) < MaxRouters
            /\ pending' = Append(pending, [Task("join-room", s) EXCEPT !.r = r, !.p = p])
            /\ last' = Step([Task("join-room", s) EXCEPT !.r = r, !.p = p], "recv", {})
            /\ UNCHANGED <<sock, registry, engine>>

\* createRouter() settles: on success the room entry is set (replacing any
\* entry made meanwhile) and the handler continues; on failure the catch
\* block answers with an error.
JoinRoomDone(i, ok) ==
    /\ UNCHANGED <<ingest, host>>
    /\ i \in PendingOps("join-room")
    /\ LET t == pending[i]
           n == Len(router) + 1
       IN  /\ pending' = RemoveAt(pending, i)
           /\ IF ok
              THEN /\ router' = Append(router, [closed |-> FALSE])
                   /\ JoinBody(t.s, t.r, t.p, [rooms EXCEPT ![t.r] = n],
                               Append(roomObj, [router |-> n,
                                                peers |-> [p \in PeerIds |-> 0],
                                                producers |-> {}]))
                   /\ UNCHANGED <<transport, producer, consumer>>
              ELSE /\ last' = Step(t, "done", {ErrorEvent(t.s, "Failed to join room")})
                   /\ UNCHANGED <<sock, registry, engine>>

\* -------------------------------------------------- create-webrtc-transport
\* socket.on('create-webrtc-transport'); the direction argument is not read.
CreateWebRTCTransport(s) ==
    /\ UNCHANGED <<ingest, host>>
    /\ sock[s].state = "open"
    /\ LET t == [Task("create-webrtc-transport", s) EXCEPT
                    !.pobj = PeerOf(s), !.robj = RoomOf(s)]
       IN  IF PeerOf(s) = 0 \/ RoomOf(s) = 0
           THEN /\ last' = Step(t, "done", {ErrorEvent(s, "Failed to create transport")})
                /\ UNCHANGED pending
           ELSE /\ Len(pending) < MaxPending
                /\ Len(transport) + Cardinality(PendingOps("create-webrtc-transport"))
                       < MaxTransports
                /\ pending' = Append(pending, t)
                /\ last' = Step(t, "recv", {})
    /\ UNCHANGED <<sock, registry, engine>>

\* router.createWebRtcTransport() settles; a closed router rejects.
CreateWebRTCTransportDone(i, ok) ==
    /\ UNCHANGED <<ingest, host>>
    /\ i \in PendingOps("create-webrtc-transport")
    /\ LET t == pending[i]
           n == Len(transport) + 1
           rt == roomObj[t.robj].router
       IN  /\ pending' = RemoveAt(pending, i)
           /\ IF ok /\ ~router[rt].closed
              THEN /\ transport' = Append(transport, [router |-> rt, closed |-> FALSE])
                   /\ peerObj' = [peerObj EXCEPT ![t.pobj].transports = @ \cup {n}]
                   /\ last' = Step([t EXCEPT !.tid = n], "done",
                                   {Event(t.s, "webrtc-transport-created", {n}, 0)})
                   /\ UNCHANGED <<sock, rooms, peers, roomObj, router, producer, consumer>>
              ELSE /\ last' = Step(t, "done",
                                   {ErrorEvent(t.s, "Failed to create transport")})
                   /\ UNCHANGED <<sock, registry, engine>>

\* -------------------------------------------------------- connect-transport
\* Faulty variant: the transport is looked up among all transports of the engine.
ConnectAcceptedAnyTransport(s, tid) ==
    /\ PeerOf(s) # 0
    /\ tid \in DOMAIN transport

\* The checks of handleConnectTransport before it awaits the engine.
ConnectAccepted(s, tid) ==
    /\ PeerOf(s) # 0
    /\ tid \in peerObj[PeerOf(s)].transports

ConnectTransport(s, tid) ==
    /\ UNCHANGED <<ingest, host>>
    /\ sock[s].state = "open"
    /\ LET t == [Task("connect-transport", s) EXCEPT !.pobj = PeerOf(s), !.tid = tid]
       IN  IF ~ConnectAccepted(s, tid)
           THEN /\ last' = Step(t, "done", {ErrorEvent(s, "Failed to connect transport")})
                /\ UNCHANGED pending
           ELSE /\ Len(pending) < MaxPending
                /\ pending' = Append(pending, t)
                /\ last' = Step(t, "recv", {})
    /\ UNCHANGED <<sock, registry, engine>>

\* transport.connect() settles; a closed transport rejects.  The negotiation
\* it completes is state of the engine that no handler reads.
ConnectTransportDone(i, ok) ==
    /\ UNCHANGED <<ingest, host>>
    /\ i \in PendingOps("connect-transport")
    /\ LET t == pending[i]
       IN  /\ pending' = RemoveAt(pending, i)
           /\ IF ok /\ ~transport[t.tid].closed
              THEN /\ last' = Step(t, "done", {Event(t.s, "transport-connected", {t.tid}, 0)})
                   /\ UNCHANGED <<sock, registry, engine>>
              ELSE /\ last' = Step(t, "done",
                                   {ErrorEvent(t.s, "Failed to connect transport")})
                   /\ UNCHANGED <<sock, registry, engine>>

\* ------------------------------------------------------------------ produce
\* The socket.io rooms a channel is in: a socket is only ever in the room
\* named by its own id, since no handler calls socket.join().
SocketRooms(t) == {<<"sid", t>>}

\* socket.to(room).emit(): every other connected channel that is in the room.
BroadcastTargets(s, room) ==
    {t \in Sockets \ {s} : sock[t].state = "open" /\ room \in SocketRooms(t)}

ProduceEmits(s, roomId, q, pid) ==
    {Event(t, "new-producer", {q}, pid) : t \in BroadcastTargets(s, <<"room", roomId>>)}
        \cup {Event(s, "producer-created", {q}, 0)}

Produce(s, tid) ==
    /\ UNCHANGED <<ingest, host>>
    /\ sock[s].state = "open"
    /\ LET t == [Task("produce", s) EXCEPT !.pobj = PeerOf(s), !.robj = RoomOf(s),
                                           !.tid = tid]
       IN  IF \/ PeerOf(s) = 0 \/ RoomOf(s) = 0
              \/ tid \notin peerObj[PeerOf(s)].transports
           THEN /\ last' = Step(t, "done", {ErrorEvent(s, "Failed to create producer")})
                /\ UNCHANGED pending
           ELSE /\ Len(pending) < MaxPending
                /\ Len(producer) + Cardinality(PendingOps("produce")) < MaxProducers
                /\ pending' = Append(pending, t)
                /\ last' = Step(t, "recv", {})
    /\ UNCHANGED <<sock, registry, engine>>

\* transport.produce() settles; a closed transport rejects.
ProduceDone(i, ok) ==
    /\ UNCHANGED <<ingest, host>>
    /\ i \in PendingOps("produce")
    /\ LET t == pending[i]
           n == Len(producer) + 1
       IN  /\ pending' = RemoveAt(pending, i)
           /\ IF ok /\ ~transport[t.tid].closed
              THEN /\ producer' = Append(producer, [transport |-> t.tid, closed |-> FALSE])
                   /\ peerObj' = [peerObj EXCEPT ![t.pobj].producers = @ \cup {n}]
                   /\ roomObj' = [roomObj EXCEPT ![t.robj].producers = @ \cup {n}]
                   /\ last' = Step([t EXCEPT !.q = n], "done",
                                   ProduceEmits(t.s, sock[t.s].roomId, n, peerObj[t.pobj].id))
                   /\ UNCHANGED <<sock, rooms, peers, router, transport, consumer>>
              ELSE /\ last' = Step(t, "done",
                                   {ErrorEvent(t.s, "Failed to create producer")})
                   /\ UNCHANGED <<sock, registry, engine>>

\* ------------------------------------------------------------------ consume
\* router.canConsume(): the producer is a live producer of this router and
\* the offered capabilities match it.
CanConsume(rt, q, caps) ==
    /\ q \in DOMAIN producer
    /\ ~producer[q].closed
    /\ transport[producer[q].transport].router = rt
    /\ caps = "ok"

\* Faulty variant: the producer is neither looked up in the room nor checked with
\* canConsume before the engine is called.
ConsumeAcceptedTransportOnly(s, tid, q, caps) ==
    /\ PeerOf(s) # 0
    /\ RoomOf(s) # 0
    /\ tid \in peerObj[PeerOf(s)].transports

\* The checks of handleConsume before it awaits the engine.
ConsumeAccepted(s, tid, q, caps) ==
    /\ PeerOf(s) # 0
    /\ RoomOf(s) # 0
    /\ tid \in peerObj[PeerOf(s)].transports
    /\ q \in roomObj[RoomOf(s)].producers
    /\ CanConsume(roomObj[RoomOf(s)].router, q, caps)

\* Faulty variant: the consumer is created running.
ConsumeUnpaused == FALSE

\* The paused flag handleConsume passes to transport.consume().
ConsumePaused == TRUE

Consume(s, tid, q, caps) ==
    /\ UNCHANGED <<ingest, host>>
    /\ sock[s].state = "open"
    /\ LET t == [Task("consume", s) EXCEPT !.pobj = PeerOf(s), !.robj = RoomOf(s),
                                           !.tid = tid, !.q = q, !.caps = caps]
       IN  IF ~ConsumeAccepted(s, tid, q, caps)
           THEN /\ last' = Step(t, "done", {ErrorEvent(s, "Failed to create consumer")})
                /\ UNCHANGED pending
           ELSE /\ Len(pending) < MaxPending
                /\ Len(consumer) + Cardinality(PendingOps("consume")) < MaxConsumers
                /\ pending' = Append(pending, t)
                /\ last' = Step(t, "recv", {})
    /\ UNCHANGED <<sock, registry, engine>>

\* transport.consume() settles; it rejects on a closed transport and on a
\* producer that is not a live producer of the transport's router.
ConsumeDone(i, ok) ==
    /\ UNCHANGED <<ingest, host>>
    /\ i \in PendingOps("consume")
    /\ LET t == pending[i]
           n == Len(consumer) + 1
       IN  /\ pending' = RemoveAt(pending, i)
           /\ IF /\ ok
                 /\ ~transport[t.tid].closed
                 /\ t.q \in DOMAIN producer
                 /\ ~producer[t.q].closed
                 /\ transport[producer[t.q].transport].router = transport[t.tid].router
              THEN /\ consumer' = Append(consumer, [transport |-> t.tid, producer |-> t.q,
                                                    paused |-> ConsumePaused,
                                                    closed |-> FALSE])
                   /\ peerObj' = [peerObj EXCEPT ![t.pobj].consumers = @ \cup {n}]
                   /\ last' = Step([t EXCEPT !.c = n], "done",
                                   {Event(t.s, "consumer-created", {n}, 0)})
                   /\ UNCHANGED <<sock, rooms, peers, roomObj, router, transport, producer>>
              ELSE /\ last' = Step(t, "done",
                                   {ErrorEvent(t.s, "Failed to create consumer")})
                   /\ UNCHANGED <<sock, registry, engine>>

\* ---------------------------------------------------------- resume-consumer
\* Faulty variant: the consumer is looked up among all consumers of the engine.
ResumeAcceptedAnyConsumer(s, c) ==
    /\ PeerOf(s) # 0
    /\ c \in DOMAIN consumer

\* The checks of handleResumeConsumer before it awaits the engine.
ResumeAccepted(s, c) ==
    /\ PeerOf(s) # 0
    /\ c \in peerObj[PeerOf(s)].consumers

ResumeConsumer(s, c) ==
    /\ UNCHANGED <<ingest, host>>
    /\ sock[s].state = "open"
    /\ LET t == [Task("resume-consumer", s) EXCEPT !.pobj = PeerOf(s), !.c = c]
       IN  IF ~ResumeAccepted(s, c)
           THEN /\ last' = Step(t, "done", {ErrorEvent(s, "Failed to resume consumer")})
                /\ UNCHANGED pending
           ELSE /\ Len(pending) < MaxPending
                /\ pending' = Append(pending, t)
                /\ last' = Step(t, "recv", {})
    /\ UNCHANGED <<sock, registry, engine>>

\* Faulty variant: resuming one consumer resumes every consumer of its producer.
ResumedAllOfProducer(c) ==
    {x \in DOMAIN consumer : consumer[x].producer = consumer[c].producer}

\* The consumers consumer.resume() unpauses.
Resumed(c) == {c}

\* consumer.resume() settles; a closed consumer rejects.
ResumeConsumerDone(i, ok) ==
    /\ UNCHANGED <<ingest, host>>
    /\ i \in PendingOps("resume-consumer")
    /\ LET t == pending[i]
       IN  /\ pending' = RemoveAt(pending, i)
           /\ IF ok /\ ~consumer[t.c].closed
              THEN /\ consumer' = [x \in DOMAIN consumer |->
                                      IF x \in Resumed(t.c)
                                      THEN [consumer[x] EXCEPT !.paused = FALSE]
                                      ELSE consumer[x]]
                   /\ last' = Step(t, "done", {Event(t.s, "consumer-resumed", {t.c}, 0)})
                   /\ UNCHANGED <<sock, registry, router, transport, producer>>
              ELSE /\ last' = Step(t, "done",
                                   {ErrorEvent(t.s, "Failed to resume consumer")})
                   /\ UNCHANGED <<sock, registry, engine>>

\* --------------------------------------------------------------- disconnect
\* The room record once handleDisconnect has removed the peer's producers
\* and the peer's id from it.
RoomAfterLeave(ro, peer) ==
    [ro EXCEPT !.producers = @ \ peer.producers, !.peers[peer.id] = 0]

\* socket.on('disconnect') -> handleDisconnect
Disconnect(s) ==
    /\ UNCHANGED <<ingest, host>>
    /\ sock[s].state = "open"
    /\ sock' = [sock EXCEPT ![s].state = "closed"]
    /\ last' = Step(Task("disconnect", s), "done", {})
    /\ UNCHANGED pending
    /\ LET k == PeerOf(s)
           ro == RoomOf(s)
       IN  IF k = 0
           THEN UNCHANGED <<registry, engine>>
           ELSE IF ro = 0
           THEN /\ peers' = [peers EXCEPT ![s] = 0]
                /\ UNCHANGED <<rooms, roomObj, peerObj, engine>>
           ELSE LET peer == peerObj[k]
                    after == RoomAfterLeave(roomObj[ro], peer)
                    empty == RoomSize(after) = 0
                IN  /\ roomObj' = [roomObj EXCEPT ![ro] = after]
                    /\ rooms' = IF empty THEN [rooms EXCEPT ![sock[s].roomId] = 0]
                                ELSE rooms
                    /\ EngineClose(IF empty THEN {after.router} ELSE {},
                                   peer.transports, peer.producers, peer.consumers)
                    /\ peers' = [peers EXCEPT ![s] = 0]
                    /\ UNCHANGED peerObj

Next ==
    \/ \E s \in Sockets : Connect(s)
    \/ \E s \in Sockets, r \in RoomIds, p \in PeerIds : JoinRoom(s, r, p)
    \/ \E i \in 1..MaxPending, ok \in BOOLEAN : JoinRoomDone(i, ok)
    \/ \E s \in Sockets : CreateWebRTCTransport(s)
    \/ \E i \in 1..MaxPending, ok \in BOOLEAN : CreateWebRTCTransportDone(i, ok)
    \/ \E s \in Sockets, tid \in 1..MaxTransports : ConnectTransport(s, tid)
    \/ \E i \in 1..MaxPending, ok \in BOOLEAN : ConnectTransportDone(i, ok)
    \/ \E s \in Sockets, tid \in 1..MaxTransports : Produce(s, tid)
    \/ \E i \in 1..MaxPending, ok \in BOOLEAN : ProduceDone(i, ok)
    \/ \E s \in Sockets, tid \in 1..MaxTransports, q \in 1..MaxProducers, caps \in Caps :
            Consume(s, tid, q, caps)
    \/ \E i \in 1..MaxPending, ok \in BOOLEAN : ConsumeDone(i, ok)
    \/ \E s \in Sockets, c \in 1..MaxConsumers : ResumeConsumer(s, c)
    \/ \E i \in 1..MaxPending, ok \in BOOLEAN : ResumeConsumerDone(i, ok)
    \/ \E s \in Sockets : Disconnect(s)

Spec == Init /\ [][Next]_vars

\* ---------------------------------------------------------- overlapping joins
\* A further join-room arrives while handlers of join-room are suspended on
\* createRouter(): it finds no entry for its roomId and suspends as well.
JoinRoomOverlapping(s, r, p) ==
    /\ UNCHANGED <<ingest, host>>
    /\ sock[s].state = "open"
    /\ r <= JoinsSoFar + 1
    /\ p <= JoinsSoFar + 1
    /\ rooms[r] = 0
    /\ pending # <<>>
    /\ PendingOps("join-room") = 1..Len(pending)
    /\ Len(pending) < MaxJoinsPending
    /\ Len(peerObj) + Len(pending) < MaxPeers
    /\ Len(router) + Len(pending) < MaxRouters
    /\ pending' = Append(pending, [Task("join-room", s) EXCEPT !.r = r, !.p = p])
    /\ last' = Step([Task("join-room", s) EXCEPT !.r = r, !.p = p], "recv", {})
    /\ UNCHANGED <<sock, registry, engine>>

NextOverlap ==
    \/ \E s \in Sockets : Connect(s)
    \/ \E s \in Sockets, r \in RoomIds, p \in PeerIds : JoinRoom(s, r, p)
    \/ \E s \in Sockets, r \in RoomIds, p \in PeerIds : JoinRoomOverlapping(s, r, p)
    \/ \E i \in 1..MaxJoinsPending, ok \in BOOLEAN : JoinRoomDone(i, ok)
    \/ \E s \in Sockets : Disconnect(s)

\* Channels that connect, join and close, with up to MaxJoinsPending joins
\* suspended on createRouter() at a time.
SpecOverlap == Init /\ [][NextOverlap]_vars

\* ------------------------------------------------------------ observations
Registered == {r \in RoomIds : rooms[r] # 0}

\* room.producers of the room registered under r
RoomProducers(r) == roomObj[rooms[r]].producers

\* The peer objects made by joins of channel s, and the one that owns an
\* engine object.
PeersMadeBy(s) == {k \in DOMAIN peerObj : peerObj[k].socket = s}

ProducerOwners(q) == {k \in DOMAIN peerObj : q \in peerObj[k].producers}

ConsumerOwners(c) == {k \in DOMAIN peerObj : c \in peerObj[k].consumers}

\* The channels whose join-room for room r completed.
JoinedChannels(r) == {peerObj[k].socket : k \in {j \in DOMAIN peerObj : peerObj[j].room = r}}

Emitted(ev) == {e \in last.out : e.ev = ev}

EmittedNext(ev) == {e \in last'.out : e.ev = ev}

CommandOps == {"join-room", "create-webrtc-transport", "connect-transport", "produce",
               "consume", "resume-consumer"}

\* ------------------------------------------------------- payloads not objects
\* A command whose payload is not an object (none, undefined, null): the
\* handler's parameter destructuring throws before the try block is entered,
\* the listener's promise rejects with nothing handling it, and the runtime
\* (Node.js 16 or later, no unhandledRejection listener installed) ends the
\* process.  Every channel is dropped and the state of the process is gone.
MalformedCommand(s, op) ==
    /\ UNCHANGED <<ingest, host>>
    /\ sock[s].state = "open"
    /\ sock' = [t \in Sockets |-> [state |-> "closed", peerId |-> 0, roomId |-> 0]]
    /\ rooms' = [r \in RoomIds |-> 0]
    /\ peers' = [t \in Sockets |-> 0]
    /\ roomObj' = <<>>
    /\ peerObj' = <<>>
    /\ router' = <<>>
    /\ transport' = <<>>
    /\ producer' = <<>>
    /\ consumer' = <<>>
    /\ pending' = <<>>
    /\ last' = Step(Task(op, s), "done", {})

NextPayload ==
    \/ Next
    \/ \E s \in Sockets, op \in CommandOps : MalformedCommand(s, op)

SpecPayload == Init /\ [][NextPayload]_vars

\* The events that answer a command with success.
SuccessEvents(op) ==
    CASE op = "join-room" -> {"router-rtp-capabilities", "existing-producers"}
      [] op = "create-webrtc-transport" -> {"webrtc-transport-created"}
      [] op = "connect-transport" -> {"transport-connected"}
      [] op = "produce" -> {"producer-created"}
      [] op = "consume" -> {"consumer-created"}
      [] op = "resume-consumer" -> {"consumer-resumed"}
      [] OTHER -> {}

\* A finished handler step answered its channel: success events and no
\* error, or one error with a message and no success event.
Answered(l) ==
    LET mine == {e \in l.out : e.to = l.s}
        errs == {e \in mine : e.ev = "error"}
        succ == {e \in mine : e.ev \in SuccessEvents(l.op)}
    IN  \/ succ # {} /\ errs = {}
        \/ succ = {} /\ Cardinality(errs) = 1 /\ \A e \in errs : e.message # ""

\* C14: a command received on a connected channel, whatever its payload, is
\* answered on that channel when its handler ends: with its success events,
\* or with one error event carrying a message, and not with both or neither.
C14_EveryCommandAnswered ==
    [][(/\ last'.op \in CommandOps
        /\ last'.phase = "done"
        /\ sock[last'.s].state = "open")
          => Answered(last')]_vars

\* ===================================================================== ingest
(***************************************************************************)
(* The RTSP bridge (RTSPBridge): one ingest supervisor per configured      *)
(* camera URL.  An attempt is one invocation of startRTSPStream; it is     *)
(* suspended at the probe, at the two createPlainTransport calls, at the   *)
(* launch of the transcoder and at the two produce calls.  The retry timer *)
(* is an interval timer whose callback probes and, on success, starts the  *)
(* next attempt.  Transcoder processes exit on their own time.             *)
(***************************************************************************)

\* (i).toString().padStart(2, '0'): the digits of cameraId after 'cam', for
\* the 1-based index i.
RECURSIVE ToDigits(_)
ToDigits(n) == IF n < 10 THEN <<n>> ELSE Append(ToDigits(n \div 10), n % 10)

CameraId(i) == IF Len(ToDigits(i)) < 2 THEN <<0>> \o ToDigits(i) ELSE ToDigits(i)

\* Faulty variant: only the first digit is read.
ParseIntFirstDigit(digits) == IF digits = <<>> THEN 0 ELSE digits[1]

\* parseInt(cameraId.replace('cam', ''))
RECURSIVE ParseInt(_)
ParseInt(digits) ==
    IF digits = <<>> THEN 0
    ELSE 10 * ParseInt(SubSeq(digits, 1, Len(digits) - 1)) + digits[Len(digits)]

\* encodings[0].ssrc of the video and of the audio producer of camera i
VideoSsrc(i) == VideoSsrcBase + ParseInt(CameraId(i))

AudioSsrc(i) == AudioSsrcBase + ParseInt(CameraId(i))

\* Faulty variant: every configured URL is started.
SupervisedAll == 1..urls

\* urlsToStart = this.rtspUrls.slice(0, maxCams)
Supervised == 1..(IF urls < MaxCams THEN urls ELSE MaxCams)

Closed(x) == IF x = "open" THEN "closed" ELSE x

\* transport.close() on the video (audio) transport of attempt a: the engine
\* closes the producer on it as well.
CloseVideoTransport(att, a) ==
    IF a = 0 THEN att ELSE [att EXCEPT ![a].vt = Closed(@), ![a].vp = Closed(@)]

CloseAudioTransport(att, a) ==
    IF a = 0 THEN att ELSE [att EXCEPT ![a].at = Closed(@), ![a].ap = Closed(@)]

CloseVideoProducer(att, a) ==
    IF a = 0 THEN att ELSE [att EXCEPT ![a].vp = Closed(@)]

CloseAudioProducer(att, a) ==
    IF a = 0 THEN att ELSE [att EXCEPT ![a].ap = Closed(@)]

\* process.kill('SIGTERM') on the transcoder of attempt a
Kill(att, a) ==
    IF a # 0 /\ att[a].proc = "alive" THEN [att EXCEPT ![a].proc = "signalled"] ELSE att

InFlight(cm) == {a \in DOMAIN cm.att : cm.att[a].pc # "end"}

\* The timers with a callback awaiting its probe.
Ticking(cm) == {t \in 1..MaxTimers : cm.ticks[t] > 0}

\* if (state.retryTimer) clearInterval(state.retryTimer)
TimersAfterClear(cm) == cm.timers \ {cm.state.retryTimer}

\* Timer ids not in use once the timer held in state is cleared.
FreeTimers(cm) == (1..MaxTimers) \ (TimersAfterClear(cm) \cup Ticking(cm))

\* A probe ends within its timeout and an attempt within its probe and its
\* launch wait (its calls of the engine take no time on this scale): when
\* these are shorter than the timer's period, the probes and attempts that
\* are outstanding when a timer is armed or fires are over when it fires
\* next.
DueAttempts(cm) ==
    IF ProbeTimeoutMs + LaunchTimeoutMs < RetryIntervalMs THEN InFlight(cm) ELSE {}

\* Faulty variant: a probe may outlast the timer's period.
DueTicksNone(cm) == {}

DueTicks(cm) == IF ProbeTimeoutMs < RetryIntervalMs THEN Ticking(cm) ELSE {}

\* clearInterval(state.retryTimer); state.retryTimer = setInterval(..., 10000)
Arm(cm) ==
    LET t == CHOOSE x \in FreeTimers(cm) : \A y \in FreeTimers(cm) : x <= y
    IN  [cm EXCEPT !.timers = TimersAfterClear(cm) \cup {t},
                   !.state.retryTimer = t,
                   !.due = DueAttempts(cm),
                   !.dueTicks = DueTicks(cm)]

ArmIfRunning(cm) == IF isRunning THEN Arm(cm) ELSE cm

\* Attempt a moves to its next wait, or returns.
Advance(cm, a, pc) ==
    [cm EXCEPT !.att[a].pc = pc, !.due = IF pc = "end" THEN @ \ {a} ELSE @]

\* --------------------------------------------------------------- start()
\* start(): isRunning is set and createRouter() awaited.
Start ==
    /\ ~isRunning
    /\ startPc = "idle"
    /\ isRunning' = TRUE
    /\ startPc' = "router"
    /\ UNCHANGED <<mainRouter, urls, env, cams, signaling, host>>

\* Faulty variant: the loop awaits the first startRTSPStream call.
StartedFirstOnly == Supervised \cap {1}

\* The cameras whose startRTSPStream has been called when start() returns:
\* the loop does not await the calls.
StartedAtOnce == Supervised

\* createRouter() settles.  On success startRTSPStream is called for each
\* of the first maxCams URLs: each call runs up to its probe.  On failure
\* isRunning is reset and the error rethrown.
StartSettles(ok) ==
    /\ startPc = "router"
    /\ ok \/ env.faults
    /\ IF ok
       THEN /\ mainRouter' = "open"
            /\ cams' = [c \in Cameras |->
                           IF c \in StartedAtOnce
                           THEN [cams[c] EXCEPT !.att = Append(@, NewAttempt)]
                           ELSE cams[c]]
            /\ startPc' = "done"
            /\ UNCHANGED isRunning
       ELSE /\ isRunning' = FALSE
            /\ startPc' = "failed"
            /\ UNCHANGED <<mainRouter, cams>>
    /\ UNCHANGED <<urls, env, signaling, host>>

\* ------------------------------------------------------- startRTSPStream
\* startRTSPStream after its probe: available, it goes on to the transports;
\* not available, it arms the retry timer and returns.
AfterProbe(cm, a, ok) ==
    IF ok THEN Advance(cm, a, "videoTransport") ELSE Advance(Arm(cm), a, "end")

\* checkStreamAvailable() of attempt a settles.  Not available: the retry
\* timer is armed and the attempt returns.
ProbeSettles(c, a, ok) ==
    /\ a \in DOMAIN cams[c].att
    /\ cams[c].att[a].pc = "probe"
    /\ ok \in env.avail[c]
    /\ ok \/ FreeTimers(cams[c]) # {}
    /\ cams' = [cams EXCEPT ![c] = AfterProbe(cams[c], a, ok)]
    /\ UNCHANGED <<isRunning, mainRouter, startPc, urls, env, signaling, host>>

\* The first createPlainTransport() settles; a rejection is caught by the
\* outer catch, which only logs.
VideoTransportSettles(c, a, ok) ==
    /\ a \in DOMAIN cams[c].att
    /\ cams[c].att[a].pc = "videoTransport"
    /\ ok \/ env.faults
    /\ cams' = [cams EXCEPT ![c] =
                  IF ok /\ mainRouter = "open"
                  THEN Advance([cams[c] EXCEPT !.att[a].vt = "open"], a, "audioTransport")
                  ELSE Advance(cams[c], a, "end")]
    /\ UNCHANGED <<isRunning, mainRouter, startPc, urls, env, signaling, host>>

\* The second createPlainTransport() settles.  On success both transports
\* are stored in state and startFFmpegProcess spawns the transcoder and
\* records it in this.ffmpegProcesses.
AudioTransportSettles(c, a, ok) ==
    /\ a \in DOMAIN cams[c].att
    /\ cams[c].att[a].pc = "audioTransport"
    /\ ok \/ env.faults
    /\ cams' = [cams EXCEPT ![c] =
                  IF ok /\ mainRouter = "open"
                  THEN Advance([cams[c] EXCEPT !.att[a].at = "open",
                                               !.att[a].proc = "alive",
                                               !.state.videoTransport = a,
                                               !.state.audioTransport = a,
                                               !.process = a],
                               a, "launch")
                  ELSE Advance(cams[c], a, "end")]
    /\ UNCHANGED <<isRunning, mainRouter, startPc, urls, env, signaling, host>>

\* ffmpeg.on('close'): the handler of the transcoder's exit.  It works on
\* the camera's state object and map entries, whichever attempt filled them.
ExitHandler(cm) ==
    LET st == cm.state
        a1 == CloseVideoProducer(cm.att, st.videoProducer)
        a2 == CloseAudioProducer(a1, st.audioProducer)
        a3 == CloseVideoTransport(a2, st.videoTransport)
        a4 == CloseAudioTransport(a3, st.audioTransport)
    IN  ArmIfRunning(
            [cm EXCEPT !.att = a4,
                       !.process = 0,
                       !.video = IF st.videoProducer # 0 THEN 0 ELSE @,
                       !.audio = IF st.audioProducer # 0 THEN 0 ELSE @,
                       !.state.videoProducer = 0,
                       !.state.audioProducer = 0,
                       !.state.videoTransport = 0,
                       !.state.audioTransport = 0])

\* The catch block around the produce calls of attempt a.
ProduceFailed(cm, a) ==
    LET a1 == CloseVideoTransport(cm.att, a)
        a2 == CloseAudioTransport(a1, a)
        a3 == Kill(a2, cm.state.ffmpeg)
    IN  ArmIfRunning([cm EXCEPT !.att = a3, !.state.ffmpeg = 0])

\* startFFmpegProcess() resolves: the transcoder wrote a ready line, or 5 s
\* have passed since the spawn.
LaunchSettles(c, a) ==
    /\ a \in DOMAIN cams[c].att
    /\ cams[c].att[a].pc = "launch"
    /\ cams' = [cams EXCEPT ![c] =
                  Advance([cams[c] EXCEPT !.state.ffmpeg = a], a, "videoProduce")]
    /\ UNCHANGED <<isRunning, mainRouter, startPc, urls, env, signaling, host>>

\* The spawn fails: 'error' rejects the launch, which the outer catch logs,
\* and 'close' runs the exit handler.
LaunchFails(c, a) ==
    /\ a \in DOMAIN cams[c].att
    /\ cams[c].att[a].pc = "launch"
    /\ cams[c].att[a].proc = "alive"
    /\ env.faults
    /\ ~isRunning \/ FreeTimers(cams[c]) # {}
    /\ cams' = [cams EXCEPT ![c] =
                  Advance(ExitHandler([cams[c] EXCEPT !.att[a].proc = "exited"]), a, "end")]
    /\ UNCHANGED <<isRunning, mainRouter, startPc, urls, env, signaling, host>>

\* videoTransport.produce() settles; a closed transport rejects.
VideoProduceSettles(c, a, ok) ==
    /\ a \in DOMAIN cams[c].att
    /\ cams[c].att[a].pc = "videoProduce"
    /\ ok \/ env.faults
    /\ LET good == ok /\ cams[c].att[a].vt = "open"
       IN  /\ good \/ ~isRunning \/ FreeTimers(cams[c]) # {}
           /\ cams' = [cams EXCEPT ![c] =
                         IF good
                         THEN Advance([cams[c] EXCEPT !.att[a].vp = "open",
                                                      !.att[a].vssrc = VideoSsrc(c)],
                                      a, "audioProduce")
                         ELSE Advance(ProduceFailed(cams[c], a), a, "end")]
    /\ UNCHANGED <<isRunning, mainRouter, startPc, urls, env, signaling, host>>

\* audioTransport.produce() settles.  On success both producers are put
\* into this.producers and into state, and the attempt returns.
AudioProduceSettles(c, a, ok) ==
    /\ a \in DOMAIN cams[c].att
    /\ cams[c].att[a].pc = "audioProduce"
    /\ ok \/ env.faults
    /\ LET good == ok /\ cams[c].att[a].at = "open"
       IN  /\ good \/ ~isRunning \/ FreeTimers(cams[c]) # {}
           /\ cams' = [cams EXCEPT ![c] =
                         IF good
                         THEN Advance([cams[c] EXCEPT !.att[a].ap = "open",
                                                      !.att[a].assrc = AudioSsrc(c),
                                                      !.video = a,
                                                      !.audio = a,
                                                      !.state.videoProducer = a,
                                                      !.state.audioProducer = a],
                                      a, "end")
                         ELSE Advance(ProduceFailed(cams[c], a), a, "end")]
    /\ UNCHANGED <<isRunning, mainRouter, startPc, urls, env, signaling, host>>

\* The transcoder of attempt a exits: 'close' runs the exit handler.
ProcessExit(c, a) ==
    /\ a \in DOMAIN cams[c].att
    /\ cams[c].att[a].proc \in {"alive", "signalled"}
    /\ env.faults
    /\ ~isRunning \/ FreeTimers(cams[c]) # {}
    /\ cams' = [cams EXCEPT ![c] = ExitHandler([cams[c] EXCEPT !.att[a].proc = "exited"])]
    /\ UNCHANGED <<isRunning, mainRouter, startPc, urls, env, signaling, host>>

\* ------------------------------------------------------------ retry timer
\* The interval timer t fires while the bridge runs: its callback starts a
\* probe.
Tick(c, t) ==
    /\ t \in cams[c].timers
    /\ cams[c].ticks[t] < MaxTickProbes
    /\ cams[c].due = {}
    /\ cams[c].dueTicks = {}
    /\ isRunning
    /\ LET cm == [cams[c] EXCEPT !.ticks[t] = @ + 1]
       IN  cams' = [cams EXCEPT ![c] = [cm EXCEPT !.due = DueAttempts(cm),
                                                  !.dueTicks = DueTicks(cm)]]
    /\ UNCHANGED <<isRunning, mainRouter, startPc, urls, env, signaling, host>>

\* The probe of a timer callback settles.  Available: the timer held in
\* state is cleared and startRTSPStream called, which runs up to its probe.
TickProbeSettles(c, t, ok) ==
    /\ cams[c].ticks[t] > 0
    /\ ok \in env.avail[c]
    /\ ok => Len(cams[c].att) < env.attempts
    /\ LET less == [cams[c] EXCEPT !.ticks[t] = @ - 1]
           cm == [less EXCEPT !.dueTicks = @ \cap Ticking(less)]
       IN  cams' = [cams EXCEPT ![c] =
                       IF ok
                       THEN [cm EXCEPT !.timers = TimersAfterClear(cm),
                                       !.state.retryTimer = 0,
                                       !.att = Append(@, NewAttempt)]
                       ELSE cm]
    /\ UNCHANGED <<isRunning, mainRouter, startPc, urls, env, signaling, host>>

NextIngest ==
    \/ Start
    \/ \E ok \in BOOLEAN : StartSettles(ok)
    \/ \E c \in Cameras, a \in 1..MaxAttempts, ok \in BOOLEAN : ProbeSettles(c, a, ok)
    \/ \E c \in Cameras, a \in 1..MaxAttempts, ok \in BOOLEAN : VideoTransportSettles(c, a, ok)
    \/ \E c \in Cameras, a \in 1..MaxAttempts, ok \in BOOLEAN : AudioTransportSettles(c, a, ok)
    \/ \E c \in Cameras, a \in 1..MaxAttempts : LaunchSettles(c, a)
    \/ \E c \in Cameras, a \in 1..MaxAttempts : LaunchFails(c, a)
    \/ \E c \in Cameras, a \in 1..MaxAttempts, ok \in BOOLEAN : VideoProduceSettles(c, a, ok)
    \/ \E c \in Cameras, a \in 1..MaxAttempts, ok \in BOOLEAN : AudioProduceSettles(c, a, ok)
    \/ \E c \in Cameras, a \in 1..MaxAttempts : ProcessExit(c, a)
    \/ \E c \in Cameras, t \in 1..MaxTimers : Tick(c, t)
    \/ \E c \in Cameras, t \in 1..MaxTimers, ok \in BOOLEAN : TickProbeSettles(c, t, ok)

\* The bridge with one or two camera URLs configured, probes and engine
\* calls that may fail, and transcoders that may exit.  A camera is followed
\* through MaxAttempts attempts when it is alone and through one attempt
\* less when there are two.
InitIngest ==
    /\ InitSignaling
    /\ InitBridge
    /\ InitHost
    /\ urls \in 1..MaxUrls
    /\ env = [avail |-> [c \in Cameras |-> BOOLEAN], faults |-> TRUE,
              attempts |-> MaxAttempts + 1 - urls]

SpecIngest == InitIngest /\ [][NextIngest]_vars

\* ------------------------------------------------------------- three cameras
\* A camera whose probe fails every time.
NeverAvailable(c) == env.avail[c] = {FALSE}

\* The steps of camera c that the code takes by itself: a pending promise
\* settles (the probe within 4 s, the launch within 5 s, the engine calls
\* when the engine answers) or the interval timer fires.  The exit of a
\* transcoder is not among them.
Progress(c) ==
    \/ \E a \in 1..MaxAttempts, ok \in BOOLEAN : ProbeSettles(c, a, ok)
    \/ \E a \in 1..MaxAttempts, ok \in BOOLEAN : VideoTransportSettles(c, a, ok)
    \/ \E a \in 1..MaxAttempts, ok \in BOOLEAN : AudioTransportSettles(c, a, ok)
    \/ \E a \in 1..MaxAttempts : LaunchSettles(c, a)
    \/ \E a \in 1..MaxAttempts, ok \in BOOLEAN : VideoProduceSettles(c, a, ok)
    \/ \E a \in 1..MaxAttempts, ok \in BOOLEAN : AudioProduceSettles(c, a, ok)
    \/ \E t \in 1..MaxTimers : Tick(c, t)
    \/ \E t \in 1..MaxTimers, ok \in BOOLEAN : TickProbeSettles(c, t, ok)

StartProgress == Start \/ \E ok \in BOOLEAN : StartSettles(ok)

\* Three camera URLs configured: the probes of the first two succeed every
\* time and those of the third never do.  Each camera is followed through
\* one attempt; engine calls fail and transcoders exit in the runs with
\* env.faults.
InitThree ==
    /\ InitSignaling
    /\ InitBridge
    /\ InitHost
    /\ urls = ThreeUrls
    /\ \E f \in BOOLEAN :
          env = [avail |-> [c \in Cameras |-> IF c = ThreeUrls THEN {FALSE} ELSE {TRUE}],
                 faults |-> f, attempts |-> 1]

\* Every camera takes its steps.
SpecThree ==
    /\ InitThree
    /\ [][NextIngest]_vars
    /\ WF_vars(StartProgress)
    /\ \A c \in Cameras : WF_vars(Progress(c))

\* The cameras whose probes succeed take their steps; the third one may
\* stall at any point, for any time.
SpecThreeStalling ==
    /\ InitThree
    /\ [][NextIngest]_vars
    /\ WF_vars(StartProgress)
    /\ \A c \in Cameras \ {ThreeUrls} : WF_vars(Progress(c))

\* ------------------------------------------------------------------- stop()
\* What stop() does to one camera: SIGTERM to the process recorded in
\* this.ffmpegProcesses, mainRouter.close(), which closes every transport
\* and producer on the router, and both maps cleared.  The state object and
\* the interval timers are not touched.
StopCamera(cm) ==
    LET signalled == Kill(cm.att, cm.process)
    IN  [cm EXCEPT !.att = [a \in DOMAIN signalled |->
                              [signalled[a] EXCEPT !.vt = Closed(@), !.at = Closed(@),
                                                   !.vp = Closed(@), !.ap = Closed(@)]],
                   !.process = 0,
                   !.video = 0,
                   !.audio = 0]

\* stop() once start() has returned.
Stop ==
    /\ startPc = "done"
    /\ isRunning' = FALSE
    /\ mainRouter' = "closed"
    /\ startPc' = "stopped"
    /\ cams' = [c \in Cameras |-> StopCamera(cams[c])]
    /\ UNCHANGED <<urls, env, signaling, host>>

NextStop == NextIngest \/ Stop

\* The bridge of SpecIngest, stopped at any point after start() returned.
\* Pending promises settle and timers fire; a transcoder need not exit.
SpecStop ==
    /\ InitIngest
    /\ [][NextStop]_vars
    /\ WF_vars(StartProgress)
    /\ \A c \in Cameras : WF_vars(Progress(c))

Stopped == startPc = "stopped"

\* ------------------------------------------------------ the launch in detail
\* Faulty variant: the started flag is not consulted.
NotYetStartedIgnored(at) == TRUE

\* if (!started ...) in the stderr handler and in the timeout callback.
NotYetStarted(at) == ~at.started

\* started = true; resolve(ffmpeg): the launch is taken as started.  The
\* promise settles once: the call resumes startRTSPStream only if it is
\* still awaiting the launch.
TakeAsStarted(cm, a) ==
    LET marked == [cm EXCEPT !.att[a].started = TRUE, !.att[a].starts = @ + 1]
    IN  IF cm.att[a].pc = "launch"
        THEN Advance([marked EXCEPT !.state.ffmpeg = a], a, "videoProduce")
        ELSE marked

\* The transcoder of attempt a writes 'Stream mapping:' or 'Press [q] to
\* stop' to its diagnostic output.
ReadyLine(c, a) ==
    /\ a \in DOMAIN cams[c].att
    /\ cams[c].att[a].proc \in {"alive", "signalled"}
    /\ cams[c].att[a].lines < MaxReadyLines
    /\ LET cm == [cams[c] EXCEPT !.att[a].lines = @ + 1]
       IN  cams' = [cams EXCEPT ![c] =
                       IF NotYetStarted(cm.att[a]) THEN TakeAsStarted(cm, a) ELSE cm]
    /\ UNCHANGED <<isRunning, mainRouter, startPc, urls, env, signaling, host>>

\* The 5 s timeout set at the spawn of attempt a fires.
LaunchTimeout(c, a) ==
    /\ a \in DOMAIN cams[c].att
    /\ cams[c].att[a].proc # "none"
    /\ cams[c].att[a].fallback = "pending"
    /\ LET cm == [cams[c] EXCEPT !.att[a].fallback = "fired"]
       IN  cams' = [cams EXCEPT ![c] =
                       IF NotYetStarted(cm.att[a]) THEN TakeAsStarted(cm, a) ELSE cm]
    /\ UNCHANGED <<isRunning, mainRouter, startPc, urls, env, signaling, host>>

NextLaunch ==
    \/ Start
    \/ \E ok \in BOOLEAN : StartSettles(ok)
    \/ \E c \in Cameras, a \in 1..MaxAttempts, ok \in BOOLEAN : ProbeSettles(c, a, ok)
    \/ \E c \in Cameras, a \in 1..MaxAttempts, ok \in BOOLEAN : VideoTransportSettles(c, a, ok)
    \/ \E c \in Cameras, a \in 1..MaxAttempts, ok \in BOOLEAN : AudioTransportSettles(c, a, ok)
    \/ \E c \in Cameras, a \in 1..MaxAttempts : ReadyLine(c, a)
    \/ \E c \in Cameras, a \in 1..MaxAttempts : LaunchTimeout(c, a)
    \/ \E c \in Cameras, a \in 1..MaxAttempts : LaunchFails(c, a)
    \/ \E c \in Cameras, a \in 1..MaxAttempts, ok \in BOOLEAN : VideoProduceSettles(c, a, ok)
    \/ \E c \in Cameras, a \in 1..MaxAttempts, ok \in BOOLEAN : AudioProduceSettles(c, a, ok)
    \/ \E c \in Cameras, a \in 1..MaxAttempts : ProcessExit(c, a)
    \/ \E c \in Cameras, t \in 1..MaxTimers : Tick(c, t)
    \/ \E c \in Cameras, t \in 1..MaxTimers, ok \in BOOLEAN : TickProbeSettles(c, t, ok)

\* One camera followed through two attempts, the launch of each split into
\* the ready lines of the transcoder and the 5 s timeout.
InitLaunch ==
    /\ InitSignaling
    /\ InitBridge
    /\ InitHost
    /\ urls = 1
    /\ env = [avail |-> [c \in Cameras |-> BOOLEAN], faults |-> TRUE, attempts |-> 2]

SpecLaunch == InitLaunch /\ [][NextLaunch]_vars

\* ------------------------------------------------------- the probe in detail
\* output && output.trim().length > 0
HasStream(output) == \E i \in DOMAIN output : output[i] = "text"

\* Faulty variant: the output is not looked at.
CloseResultIgnoresOutput(p, code) == ~p.errored /\ code = 0

\* What the 'close' handler of ffprobe resolves the promise with.
CloseResult(p, code) == ~p.errored /\ code = 0 /\ HasStream(p.output)

\* resolve(v): the first call settles the promise, later calls do nothing.
Resolve(p, v) ==
    IF p.result = "none" THEN [p EXCEPT !.result = IF v THEN "true" ELSE "false"] ELSE p

\* The probe of attempt a becomes p; if that settled its promise,
\* startRTSPStream resumes with the result.
ProbeBecomes(c, a, p) ==
    LET cm == [cams[c] EXCEPT !.att[a].probe = p]
    IN  /\ (cams[c].att[a].probe.result = "none" /\ p.result = "false")
              => FreeTimers(cams[c]) # {}
        /\ cams' = [cams EXCEPT ![c] =
                       IF cams[c].att[a].probe.result = "none" /\ p.result # "none"
                       THEN AfterProbe(cm, a, p.result = "true")
                       ELSE cm]
        /\ UNCHANGED <<isRunning, mainRouter, startPc, urls, env, signaling, host>>

\* spawn() throws: the catch block resolves false; no timer is set.
ProbeSpawnThrows(c, a) ==
    /\ a \in DOMAIN cams[c].att
    /\ cams[c].att[a].probe = NewProbe
    /\ ProbeBecomes(c, a, Resolve([NewProbe EXCEPT !.proc = "none", !.timer = "none"], FALSE))

\* ffprobe writes a chunk to its standard output.
ProbeData(c, a, chunk) ==
    /\ a \in DOMAIN cams[c].att
    /\ cams[c].att[a].probe.proc = "running"
    /\ Len(cams[c].att[a].probe.output) < MaxChunks
    /\ ProbeBecomes(c, a, [cams[c].att[a].probe EXCEPT !.output = Append(@, chunk)])

\* The 'error' event of ffprobe: it could not be spawned or signalled.
ProbeError(c, a) ==
    /\ a \in DOMAIN cams[c].att
    /\ cams[c].att[a].probe.proc = "running"
    /\ ~cams[c].att[a].probe.errored
    /\ ProbeBecomes(c, a, [cams[c].att[a].probe EXCEPT !.errored = TRUE])

\* The 'close' event of ffprobe, with its exit code.
ProbeClose(c, a, code) ==
    /\ a \in DOMAIN cams[c].att
    /\ cams[c].att[a].probe.proc = "running"
    /\ LET p == cams[c].att[a].probe
       IN  ProbeBecomes(c, a, Resolve([p EXCEPT !.proc = "closed", !.code = code],
                                      CloseResult(p, code)))

\* The 4 s timer fires: SIGTERM to ffprobe and resolve(false).  The timer
\* is not cleared when the probe has ended before.
ProbeTimeout(c, a) ==
    /\ a \in DOMAIN cams[c].att
    /\ cams[c].att[a].probe.timer = "pending"
    /\ ProbeBecomes(c, a, Resolve([cams[c].att[a].probe EXCEPT !.timer = "fired"], FALSE))

NextProbe ==
    \/ Start
    \/ \E ok \in BOOLEAN : StartSettles(ok)
    \/ \E c \in Cameras, a \in 1..MaxAttempts : ProbeSpawnThrows(c, a)
    \/ \E c \in Cameras, a \in 1..MaxAttempts, chunk \in {"blank", "text"} : ProbeData(c, a, chunk)
    \/ \E c \in Cameras, a \in 1..MaxAttempts : ProbeError(c, a)
    \/ \E c \in Cameras, a \in 1..MaxAttempts, code \in {0, 1, Null} : ProbeClose(c, a, code)
    \/ \E c \in Cameras, a \in 1..MaxAttempts : ProbeTimeout(c, a)
    \/ \E c \in Cameras, a \in 1..MaxAttempts, ok \in BOOLEAN : VideoTransportSettles(c, a, ok)
    \/ \E c \in Cameras, a \in 1..MaxAttempts, ok \in BOOLEAN : AudioTransportSettles(c, a, ok)
    \/ \E c \in Cameras, a \in 1..MaxAttempts : LaunchSettles(c, a)
    \/ \E c \in Cameras, a \in 1..MaxAttempts : LaunchFails(c, a)
    \/ \E c \in Cameras, a \in 1..MaxAttempts, ok \in BOOLEAN : VideoProduceSettles(c, a, ok)
    \/ \E c \in Cameras, a \in 1..MaxAttempts, ok \in BOOLEAN : AudioProduceSettles(c, a, ok)
    \/ \E c \in Cameras, a \in 1..MaxAttempts : ProcessExit(c, a)
    \/ \E c \in Cameras, t \in 1..MaxTimers : Tick(c, t)
    \/ \E c \in Cameras, t \in 1..MaxTimers, ok \in BOOLEAN : TickProbeSettles(c, t, ok)

\* One camera followed through one attempt, its probe split into the events
\* of ffprobe and the 4 s timer; the probes of the timer callbacks are
\* followed by their result alone.
InitProbe ==
    /\ InitSignaling
    /\ InitBridge
    /\ InitHost
    /\ urls = 1
    /\ env = [avail |-> [c \in Cameras |-> BOOLEAN], faults |-> TRUE, attempts |-> 1]

SpecProbe == InitProbe /\ [][NextProbe]_vars

\* -------------------------------------------------------------- the URL list
\* Any number of URLs up to one more than start() supervises.  The first
\* camera is followed through one attempt; the probes of the others fail.
InitCap ==
    /\ InitSignaling
    /\ InitBridge
    /\ InitHost
    /\ urls \in 1..NumCameras
    /\ env = [avail |-> [c \in Cameras |-> IF c = 1 THEN BOOLEAN ELSE {FALSE}],
              faults |-> TRUE, attempts |-> 1]

SpecCap == InitCap /\ [][NextIngest]_vars

\* ------------------------------------------------------ the service process
\* What the 'died' handler of init() leaves of the exit timer:
\* setTimeout(() => process.exit(1), 2000).
ExitTimerNotArmed == "none"
ExitTimerAfterDeath == "armed"

Running == host.process = "running"

\* The worker dies: the engine closes its routers with their transports and
\* producers, and the 'died' handler logs and arms the exit timer.
WorkerDies ==
    /\ Running
    /\ host.worker = "alive"
    /\ host' = [host EXCEPT !.worker = "died", !.exitTimer = ExitTimerAfterDeath]
    /\ mainRouter' = IF mainRouter = "open" THEN "closed" ELSE mainRouter
    /\ cams' = [c \in Cameras |->
                  LET att == cams[c].att
                  IN  [cams[c] EXCEPT !.att = [a \in DOMAIN att |->
                          [att[a] EXCEPT !.vt = Closed(@), !.at = Closed(@),
                                         !.vp = Closed(@), !.ap = Closed(@)]]]]
    /\ UNCHANGED <<isRunning, startPc, urls, env, signaling>>

\* The exit timer fires, 2 s after the worker died: process.exit(1).
ExitTimerFires ==
    /\ Running
    /\ host.exitTimer = "armed"
    /\ host' = [host EXCEPT !.exitTimer = "fired", !.process = "exit1"]
    /\ UNCHANGED <<ingest, signaling>>

\* MediaSoupService.getRouterCapabilities(): throws unless this.router is
\* set, and returns this.router.rtpCapabilities otherwise.
GetRouterCapabilities == IF host.router = "none" THEN "throws" ELSE "rtpCapabilities"

\* GET /router-capabilities: the capability document, or status 500 with
\* { error: 'Internal server error' } when getRouterCapabilities() throws.
RouterCapabilitiesRoute ==
    /\ Running
    /\ host' = [host EXCEPT !.reply = IF GetRouterCapabilities = "throws"
                                      THEN "error500" ELSE "capabilities"]
    /\ UNCHANGED <<ingest, signaling>>

\* SIGINT or SIGTERM: the handler awaits SFUServer.stop(), which stops the
\* bridge and closes the worker, and calls process.exit(0).
Shutdown ==
    /\ Running
    /\ isRunning' = FALSE
    /\ mainRouter' = IF mainRouter = "none" THEN "none" ELSE "closed"
    /\ cams' = [c \in Cameras |-> StopCamera(cams[c])]
    /\ host' = [host EXCEPT !.worker = IF @ = "alive" THEN "closed" ELSE @,
                            !.process = "exit0"]
    /\ UNCHANGED <<startPc, urls, env, signaling>>

NextHost ==
    \/ Running /\ NextIngest
    \/ WorkerDies
    \/ ExitTimerFires
    \/ RouterCapabilitiesRoute
    \/ Shutdown

\* The service with the three cameras of InitThree, a worker that may die at
\* any time, requests for the capabilities and shutdown signals.  A timer
\* that is armed fires.
SpecHost ==
    /\ InitThree
    /\ [][NextHost]_vars
    /\ WF_vars(ExitTimerFires)

\* ------------------------------------------------------------ start() again
\* Faulty variant: start() does not look at the flag.
AlreadyRunningIgnored == FALSE

\* if (this.isRunning) return
AlreadyRunning == isRunning

\* A further call of start(), at any time after the first: it returns at
\* once when the bridge is running, and otherwise sets the flag and awaits
\* createRouter() as the first call did.
StartAgain ==
    /\ startPc \in {"router", "done", "failed"}
    /\ IF AlreadyRunning
       THEN /\ host' = [host EXCEPT !.again = "refused"]
            /\ UNCHANGED <<ingest, signaling>>
       ELSE /\ host' = [host EXCEPT !.again = "proceeded"]
            /\ isRunning' = TRUE
            /\ startPc' = "router"
            /\ UNCHANGED <<mainRouter, urls, env, cams, signaling>>

NextRestart == NextIngest \/ StartAgain

\* The three cameras of InitThree, with start() called again at any time.
SpecRestart == InitThree /\ [][NextRestart]_vars

\* ------------------------------------------------------ ingest observations
\* The transcoders of camera c whose exit has not been handled, and the
\* attempts of c that hold an open transport or producer.
AliveProcesses(c) ==
    {a \in DOMAIN cams[c].att : cams[c].att[a].proc \in {"alive", "signalled"}}

HoldsOpen(at) == "open" \in {at.vt, at.at, at.vp, at.ap}

OpenAttempts(c) == {a \in DOMAIN cams[c].att : HoldsOpen(cams[c].att[a])}

\* The probes of camera c that have not settled: those of attempts and
\* those of timer callbacks.
ProbingAttempts(c) == {a \in DOMAIN cams[c].att : cams[c].att[a].pc = "probe"}

RECURSIVE SumTicks(_, _)
SumTicks(f, T) ==
    IF T = {} THEN 0
    ELSE LET t == CHOOSE x \in T : TRUE IN f[t] + SumTicks(f, T \ {t})

TickProbes(c) == SumTicks(cams[c].ticks, 1..MaxTimers)

OutstandingProbes(c) == Cardinality(ProbingAttempts(c)) + TickProbes(c)

\* What is in flight for camera c: invocations of startRTSPStream that have
\* not returned and timer callbacks awaiting their probe.
AttemptsInFlight(c) == Cardinality(InFlight(cams[c])) + TickProbes(c)

\* The lifecycle states of a camera.
Producing(c) ==
    \E a \in DOMAIN cams[c].att :
        /\ cams[c].att[a].pc = "end"
        /\ cams[c].att[a].vp = "open"
        /\ cams[c].att[a].ap = "open"

Retrying(c) ==
    /\ cams[c].timers # {}
    /\ InFlight(cams[c]) = {}

\* ------------------------------------------------------------------- claims

\* C1: once every channel that joined room R has closed, R is no longer in
\* the registry.
C1_RoomRemovedWhenAllLeft ==
    \A r \in RoomIds :
        (/\ JoinedChannels(r) # {}
         /\ \A s \in JoinedChannels(r) : sock[s].state = "closed")
            => rooms[r] = 0

\* C2: a producer created by peer P is in the producer set of P's room while
\* P's channel is open, and is closed and in no registered room's producer
\* set once P's channel has closed.
C2_ProducerFollowsOwner ==
    \A q \in DOMAIN producer : \A k \in ProducerOwners(q) :
        LET s == peerObj[k].socket
            r == peerObj[k].room
        IN  /\ sock[s].state = "open" => (rooms[r] # 0 /\ q \in RoomProducers(r))
            /\ sock[s].state = "closed" =>
                  (producer[q].closed /\ \A r2 \in Registered : q \notin RoomProducers(r2))

\* C3: a consume command naming a producer id that is not in the producer set
\* of the requesting channel's room is answered with an error in the same
\* step, suspends nothing and adds no consumer to any peer.
C3_ConsumeUnknownProducerRejected ==
    [][\A s \in Sockets, tid \in 1..MaxTransports, q \in 1..MaxProducers, caps \in Caps :
          (/\ last'.op = "consume"
           /\ (RoomOf(s) = 0 \/ q \notin roomObj[RoomOf(s)].producers)
           /\ Consume(s, tid, q, caps))
              => /\ last'.out = {ErrorEvent(s, "Failed to create consumer")}
                 /\ pending' = pending
                 /\ peerObj' = peerObj
                 /\ consumer' = consumer]_vars

C3_Witness ==
    /\ last.op = "consume"
    /\ last.out = {ErrorEvent(last.s, "Failed to create consumer")}
    /\ PeerOf(last.s) # 0
    /\ RoomOf(last.s) # 0
    /\ peerObj[PeerOf(last.s)].transports # {}
    /\ \E q \in DOMAIN producer :
          /\ q \notin roomObj[RoomOf(last.s)].producers
          /\ ~CanConsume(roomObj[RoomOf(last.s)].router, q, "ok")
    /\ consumer = <<>>

\* C4: consumers of one producer held by different peers have distinct ids,
\* each in the consumer map of one peer only; a step changes the paused flag
\* of at most one consumer, and a resume that is answered consumer-resumed{c}
\* has unpaused c whatever the state of the other consumers.
C4_ConsumersIndependent ==
    /\ [](\A c \in DOMAIN consumer : Cardinality(ConsumerOwners(c)) = 1)
    /\ [][/\ \A c1, c2 \in DOMAIN consumer :
                (c1 # c2 /\ consumer'[c1].paused # consumer[c1].paused)
                    => consumer'[c2].paused = consumer[c2].paused
          /\ \A e \in EmittedNext("consumer-resumed") : \A c \in e.ids :
                /\ c \in DOMAIN consumer
                /\ ~consumer'[c].paused]_vars

C4_Witness ==
    \E c1, c2 \in DOMAIN consumer :
        /\ c1 # c2
        /\ consumer[c1].producer = consumer[c2].producer
        /\ ConsumerOwners(c1) # ConsumerOwners(c2)
        /\ ~consumer[c1].paused
        /\ consumer[c2].paused
        /\ ~consumer[c2].closed
        /\ Emitted("consumer-resumed") # {}

\* C5 as stated: every successful join-room is answered with
\* router-rtp-capabilities and with existing-producers carrying exactly the
\* producer ids of the room, the empty list included.
C5_ExistingProducersAlways ==
    (last.op = "join-room" /\ Emitted("router-rtp-capabilities") # {})
        => \E e \in Emitted("existing-producers") :
              /\ e.to = last.s
              /\ e.ids = RoomProducers(sock[last.s].roomId)

\* C5 amended: every successful join-room whose channel is open when it
\* completes is answered with router-rtp-capabilities of the room's router;
\* when the room has producers it is also answered with one
\* existing-producers carrying exactly the room's producer ids, and when it
\* has none no existing-producers is sent.
C5_ExistingProducersWhenAny ==
    (/\ last.op = "join-room"
     /\ last.phase = "done"
     /\ sock[last.s].state = "open"
     /\ Emitted("error") = {})
        => LET r == sock[last.s].roomId
           IN  /\ Emitted("router-rtp-capabilities")
                    = {Event(last.s, "router-rtp-capabilities", {roomObj[rooms[r]].router}, 0)}
               /\ Emitted("existing-producers")
                    = IF RoomProducers(r) = {} THEN {}
                      ELSE {Event(last.s, "existing-producers", RoomProducers(r), 0)}
               /\ last.out = Emitted("router-rtp-capabilities")
                                \cup Emitted("existing-producers")

C5_Witness ==
    /\ last.op = "join-room"
    /\ \E e \in Emitted("existing-producers") :
          /\ e.ids # {}
          /\ \A q \in e.ids : \A k \in ProducerOwners(q) : peerObj[k].socket # last.s

\* C6: a second join-room(roomId, peerId) from a channel that already joined
\* with the same ids leaves that channel's peer with the same transports,
\* producers and consumers.
C6_JoinIdempotent ==
    [][\A s \in Sockets :
          (/\ last'.op = "join-room"
           /\ last'.s = s
           /\ EmittedNext("router-rtp-capabilities") # {}
           /\ PeerOf(s) # 0
           /\ sock'[s].roomId = sock[s].roomId
           /\ sock'[s].peerId = sock[s].peerId)
              => /\ peerObj'[peers'[s]].transports = peerObj[peers[s]].transports
                 /\ peerObj'[peers'[s]].producers = peerObj[peers[s]].producers
                 /\ peerObj'[peers'[s]].consumers = peerObj[peers[s]].consumers]_vars

\* C7: when produce by peer P succeeds, every other channel joined to P's
\* room gets exactly one new-producer{producerId, peerId = P}, and P's
\* channel gets producer-created and no new-producer.
C7_NewProducerBroadcast ==
    \A e \in Emitted("producer-created") :
        /\ \A t \in Sockets \ {e.to} :
              (/\ sock[t].state = "open"
               /\ PeerOf(t) # 0
               /\ sock[t].roomId = sock[e.to].roomId)
                  => \E k \in ProducerOwners(CHOOSE q \in e.ids : TRUE) :
                        Event(t, "new-producer", e.ids, peerObj[k].id) \in last.out
        /\ \A n \in Emitted("new-producer") : n.to # e.to

\* C8: a consumer is created paused, and its paused flag is cleared only by a
\* resume-consumer that succeeds for a channel whose peer holds it.
C8_PausedUntilOwnerResumes ==
    [][\A c \in DOMAIN consumer' :
          /\ c \notin DOMAIN consumer => consumer'[c].paused
          /\ (c \in DOMAIN consumer /\ consumer[c].paused /\ ~consumer'[c].paused)
                => /\ last'.op = "resume-consumer"
                   /\ last'.phase = "done"
                   /\ EmittedNext("error") = {}
                   /\ sock[last'.s].state = "open" =>
                         last'.out = {Event(last'.s, "consumer-resumed", {c}, 0)}
                   /\ \E k \in ConsumerOwners(c) : peerObj[k].socket = last'.s]_vars

C8_Witness ==
    /\ last.op = "resume-consumer"
    /\ \E c \in DOMAIN consumer :
          /\ ~consumer[c].paused
          /\ last.out = {Event(last.s, "consumer-resumed", {c}, 0)}

\* C9: a command of a channel is processed only after every earlier command
\* of that channel has finished.
C9_PerChannelOrder ==
    [][\A s \in Sockets :
          (/\ last'.op \in CommandOps
           /\ last'.s = s
           /\ Len(pending') >= Len(pending))
              => \A i \in DOMAIN pending : pending[i].s # s]_vars

\* C10: in the state right after a joined peer's channel has closed, every
\* transport, producer and consumer the channel's peer owned is closed, its
\* producers are in no registered room's producer set, the peer is in no
\* registered room's peer map and not in the global index, and a room left
\* without peers is not registered.
C10_DisconnectCascade ==
    (last.op = "disconnect" /\ PeersMadeBy(last.s) # {})
        => /\ peers[last.s] = 0
           /\ \A k \in PeersMadeBy(last.s) :
                 /\ \A t \in peerObj[k].transports : transport[t].closed
                 /\ \A q \in peerObj[k].producers : producer[q].closed
                 /\ \A c \in peerObj[k].consumers : consumer[c].closed
                 /\ \A r \in Registered :
                       /\ RoomProducers(r) \cap peerObj[k].producers = {}
                       /\ roomObj[rooms[r]].peers[peerObj[k].id] # k
           /\ \A r \in Registered : RoomSize(roomObj[rooms[r]]) > 0

\* -------------------------------------------------------------- HTTP surface
\* GET /health: this.rooms.size and this.peers.size
HealthRooms == Cardinality(Registered)

HealthPeers == Cardinality({s \in Sockets : peers[s] # 0})

\* GET /rooms/:roomId: room.peers.size of the registered room
RoomParticipants(r) == RoomSize(roomObj[rooms[r]])

RECURSIVE SumParticipants(_)
SumParticipants(R) ==
    IF R = {} THEN 0
    ELSE LET r == CHOOSE x \in R : TRUE
         IN  RoomParticipants(r) + SumParticipants(R \ {r})

\* The connected channels whose peer was put into room object ro, and those
\* whose peer was made by a join of room id r.
RoomRefs(ro) ==
    {s \in Sockets : /\ sock[s].state = "open"
                     /\ PeerOf(s) # 0
                     /\ peerObj[PeerOf(s)].robj = ro}

RoomMembers(r) ==
    {s \in Sockets : /\ sock[s].state = "open"
                     /\ PeerOf(s) # 0
                     /\ peerObj[PeerOf(s)].room = r}

\* C11: the router created for a room is closed exactly when no connected
\* peer of that room is left: it is open while one is, and closed once none
\* is.
C11_RouterClosedAtZero ==
    \A ro \in DOMAIN roomObj :
        router[roomObj[ro].router].closed <=> RoomRefs(ro) = {}

\* C12: a room id is registered exactly when a connected, joined peer
\* belongs to it, and the router of a registered room is open.
C12_RoomExistsIffPopulated ==
    \A r \in RoomIds :
        /\ rooms[r] # 0 <=> RoomMembers(r) # {}
        /\ rooms[r] # 0 => ~router[roomObj[rooms[r]].router].closed

\* C13: every peer of the global index is in the peer map of exactly one
\* registered room, the one its channel records; every entry of a registered
\* room's peer map is the peer of exactly one connected channel of the global
\* index; and the peer count of /health is the sum of the rooms' participant
\* counts.
C13_PeerInExactlyOneRoom ==
    /\ \A s \in Sockets : peers[s] # 0 =>
          {r \in Registered : \E p \in PeerIds : roomObj[rooms[r]].peers[p] = peers[s]}
              = {sock[s].roomId}
    /\ \A r \in Registered : \A p \in PeerIds :
          roomObj[rooms[r]].peers[p] # 0 =>
              Cardinality({s \in Sockets : /\ sock[s].state = "open"
                                           /\ peers[s] = roomObj[rooms[r]].peers[p]}) = 1
    /\ HealthPeers = SumParticipants(Registered)

\* The step answered channel s with one error and changed nothing else.
Rejected(s, msg) ==
    /\ last'.out = {ErrorEvent(s, msg)}
    /\ UNCHANGED <<sock, registry, engine, pending>>

\* C15: a create-webrtc-transport, connect-transport, produce, consume or
\* resume-consumer from a channel that has not joined, or naming a transport
\* or consumer id its peer does not hold, is answered with the handler's
\* error event in the same step; no room, peer, transport, producer or
\* consumer changes, nothing is suspended, and the channel stays open.
C15_UnknownReferenceRejected ==
    [][/\ (last'.op = "create-webrtc-transport" /\ Len(pending') >= Len(pending)) =>
            \A s \in Sockets :
                (last'.s = s /\ PeerOf(s) = 0 /\ CreateWebRTCTransport(s))
                    => Rejected(s, "Failed to create transport")
       /\ (last'.op = "connect-transport" /\ Len(pending') >= Len(pending)) =>
            \A s \in Sockets, tid \in 1..MaxTransports :
                (/\ last'.s = s
                 /\ PeerOf(s) = 0 \/ tid \notin peerObj[PeerOf(s)].transports
                 /\ ConnectTransport(s, tid))
                    => Rejected(s, "Failed to connect transport")
       /\ (last'.op = "produce" /\ Len(pending') >= Len(pending)) =>
            \A s \in Sockets, tid \in 1..MaxTransports :
                (/\ last'.s = s
                 /\ PeerOf(s) = 0 \/ tid \notin peerObj[PeerOf(s)].transports
                 /\ Produce(s, tid))
                    => Rejected(s, "Failed to create producer")
       /\ (last'.op = "consume" /\ Len(pending') >= Len(pending)) =>
            \A s \in Sockets, tid \in 1..MaxTransports, q \in 1..MaxProducers, caps \in Caps :
                (/\ last'.s = s
                 /\ PeerOf(s) = 0 \/ tid \notin peerObj[PeerOf(s)].transports
                 /\ Consume(s, tid, q, caps))
                    => Rejected(s, "Failed to create consumer")
       /\ (last'.op = "resume-consumer" /\ Len(pending') >= Len(pending)) =>
            \A s \in Sockets, c \in 1..MaxConsumers :
                (/\ last'.s = s
                 /\ PeerOf(s) = 0 \/ c \notin peerObj[PeerOf(s)].consumers
                 /\ ResumeConsumer(s, c))
                    => Rejected(s, "Failed to resume consumer")
       /\ \A s \in Sockets :
            (/\ last'.op \in CommandOps \ {"join-room"}
             /\ last'.s = s
             /\ last'.phase = "done"
             /\ sock[s].state = "open"
             /\ PeerOf(s) = 0)
                => /\ EmittedNext("error") # {}
                   /\ sock'[s].state = "open"]_vars

\* A joined peer without transports of its own was refused a
\* connect-transport while another peer's transport exists, and its channel
\* is open.
C15_Witness ==
    /\ last.op = "connect-transport"
    /\ last.phase = "done"
    /\ last.out = {ErrorEvent(last.s, "Failed to connect transport")}
    /\ sock[last.s].state = "open"
    /\ PeerOf(last.s) # 0
    /\ Cardinality(PeersMadeBy(last.s)) = 1
    /\ peerObj[PeerOf(last.s)].transports = {}
    /\ \E t \in DOMAIN transport : ~transport[t].closed

\* The ids of the producers an attempt of a camera makes on its video (k = 1)
\* and audio (k = 2) transport, numbered after the producers of clients.
IngestProducerId(c, a, k) == MaxProducers + 2 * ((c - 1) * MaxAttempts + (a - 1)) + k

\* The producers the bridge holds for camera c: the entries <cameraId>_video
\* and <cameraId>_audio of its own producers map.
CameraProducers(c) ==
    {IngestProducerId(c, cams[c].video, 1) : x \in {y \in {1} : cams[c].video # 0}}
      \cup {IngestProducerId(c, cams[c].audio, 2) : x \in {y \in {2} : cams[c].audio # 0}}

\* C16: when a camera's ingest is Producing, its video and audio producers
\* are in the producer set of a registered room, where join-room and consume
\* look producers up.
C16_IngestProducersInRoom ==
    \A c \in Cameras :
        Producing(c) =>
            /\ Cardinality(CameraProducers(c)) = 2
            /\ \E r \in Registered : CameraProducers(c) \subseteq RoomProducers(r)

\* A startRTSPStream call for camera c begins in this step.
AttemptStarts(c) == Len(cams'[c].att) > Len(cams[c].att)

\* C17: at most one ingest attempt is in flight per camera in every state,
\* and an attempt for a camera starts only when no transport or producer of
\* an earlier attempt of that camera is open and no transcoder of it alive.
C17_OneAttemptAtATime ==
    /\ [](\A c \in Cameras : AttemptsInFlight(c) <= 1)
    /\ [][\A c \in Cameras :
            AttemptStarts(c) => (AliveProcesses(c) = {} /\ OpenAttempts(c) = {})]_vars

\* The transcoder of attempt a of camera c exits in this step while the
\* bridge is running.
ExitsWhileRunning(c, a) ==
    /\ isRunning
    /\ cams[c].att[a].proc \in {"alive", "signalled"}
    /\ cams'[c].att[a].proc = "exited"

\* Attempt b of camera c gets a video or an audio producer in this step.
ProducerCreated(c, b) ==
    /\ b \in DOMAIN cams'[c].att
    /\ \/ cams[c].att[b].vp = "none" /\ cams'[c].att[b].vp = "open"
       \/ cams[c].att[b].ap = "none" /\ cams'[c].att[b].ap = "open"

\* The attempts of camera c whose transcoder has exited while a transport or
\* a producer of theirs is still open.
CleanupUnresolved(c) ==
    {a \in DOMAIN cams[c].att :
        cams[c].att[a].proc = "exited" /\ HoldsOpen(cams[c].att[a])}

\* C18: a transcoder exit while the bridge runs leaves the camera with one
\* retry timer and is the exit of the camera's latest attempt, so that the
\* attempt the timer starts is the only one that follows it; and no producer
\* is created for a camera while an exited attempt of it still holds an open
\* transport or producer.
C18_OneRetryAfterExit ==
    [][\A c \in Cameras : \A a \in DOMAIN cams[c].att :
          /\ ExitsWhileRunning(c, a) =>
                /\ Cardinality(cams'[c].timers) = 1
                /\ Len(cams[c].att) = a
          /\ ProducerCreated(c, a) => CleanupUnresolved(c) = {}]_vars

\* Camera c has had no transport, transcoder or producer so far.
NothingCreated(c) ==
    /\ \A a \in DOMAIN cams[c].att :
          {cams[c].att[a].vt, cams[c].att[a].at, cams[c].att[a].vp,
           cams[c].att[a].ap, cams[c].att[a].proc} = {"none"}
    /\ cams[c].process = 0
    /\ cams[c].video = 0
    /\ cams[c].audio = 0

\* C19: a camera whose probe fails every time gets no transport, transcoder
\* or producer and is never Producing; it never has two probes outstanding
\* nor two retry timers; once the bridge has started it becomes Retrying,
\* stays Retrying from then on, and its timer issues a probe again and again.
C19_NeverAvailableKeepsRetrying ==
    \A c \in 1..ThreeUrls :
        NeverAvailable(c) =>
            /\ [](NothingCreated(c) /\ ~Producing(c))
            /\ [](OutstandingProbes(c) <= 1 /\ Cardinality(cams[c].timers) <= 1)
            /\ [](startPc = "done" => <>Retrying(c))
            /\ [](Retrying(c) => []Retrying(c))
            /\ [](startPc = "done" => <>(TickProbes(c) = 1))
            /\ [](TickProbes(c) = 1 => <>(TickProbes(c) = 0))

C19_Witness ==
    \E c \in Cameras :
        /\ NeverAvailable(c)
        /\ Retrying(c)
        /\ TickProbes(c) = 1
        /\ \E d \in Cameras \ {c} : Producing(d)

\* A step of the bridge after start() that changes the record of camera c.
CameraStep(c) == startPc' = startPc /\ cams'[c] # cams[c]

ProduceRejected(c, a) ==
    /\ isRunning
    /\ cams[c].att[a].pc \in {"videoProduce", "audioProduce"}
    /\ cams'[c].att[a].pc = "end"
    /\ cams'[c].att[a].ap # "open"

\* C21: after the exit of a transcoder while the bridge runs, and after a
\* rejected produce call, no transport or producer of that attempt is open,
\* the camera has no entry in the producers map, its subprocess handle is
\* cleared (the process-map entry on exit, state.ffmpeg on a rejected
\* produce), and the camera has exactly one retry timer.
C21_FailureCleansUp ==
    [][\A c \in Cameras : \A a \in DOMAIN cams[c].att :
          /\ ExitsWhileRunning(c, a) =>
                /\ ~HoldsOpen(cams'[c].att[a])
                /\ cams'[c].video = 0 /\ cams'[c].audio = 0
                /\ cams'[c].process = 0
                /\ Cardinality(cams'[c].timers) = 1
                /\ cams'[c].state.retryTimer \in cams'[c].timers
          /\ ProduceRejected(c, a) =>
                /\ ~HoldsOpen(cams'[c].att[a])
                /\ cams'[c].video # a /\ cams'[c].audio # a
                /\ cams'[c].state.ffmpeg = 0
                /\ Cardinality(cams'[c].timers) = 1
                /\ cams'[c].state.retryTimer \in cams'[c].timers]_vars

\* C22: while the bridge runs, a camera whose ingest has been started is
\* Producing, or has an attempt in flight, or has a pending retry timer: no
\* failure leaves it with nothing that would bring it back.
C22_FailureLeavesRetry ==
    \A c \in Cameras :
        (isRunning /\ cams[c].att # <<>>) =>
            \/ Producing(c)
            \/ InFlight(cams[c]) # {}
            \/ cams[c].timers # {}

\* Something is created for camera c in this step: a probe is issued, a
\* startRTSPStream call begins, a transport or a producer is opened, or a
\* transcoder is spawned.
CreatedFor(c) ==
    \/ OutstandingProbes(c)' > OutstandingProbes(c)
    \/ AttemptStarts(c)
    \/ \E a \in DOMAIN cams[c].att :
          \/ cams[c].att[a].vt = "none" /\ cams'[c].att[a].vt = "open"
          \/ cams[c].att[a].at = "none" /\ cams'[c].att[a].at = "open"
          \/ cams[c].att[a].proc = "none" /\ cams'[c].att[a].proc = "alive"
          \/ ProducerCreated(c, a)

\* C23: once stop() has been called no camera has a pending retry timer,
\* and no step creates a probe, a transport, a transcoder or a producer for
\* any camera.
C23_StopCancelsRetries ==
    /\ [](Stopped => \A c \in Cameras : cams[c].timers = {})
    /\ [][Stopped => \A c \in Cameras : ~CreatedFor(c)]_vars

\* C24: stop() leaves no transcoder that has not been sent SIGTERM; after
\* stop() eventually no transcoder is alive; and after stop() no ingest
\* transport or producer is open.
C24_StopEndsTranscoders ==
    /\ [][Stop => \A c \in Cameras : \A a \in DOMAIN cams'[c].att :
                     cams'[c].att[a].proc # "alive"]_vars
    /\ Stopped ~> (\A c \in Cameras : AliveProcesses(c) = {})
    /\ [](Stopped => \A c \in Cameras : OpenAttempts(c) = {})

\* A ready line of the transcoder of attempt a is read, or its 5 s timeout
\* fires, in this step.
LaunchEvent(c, a) ==
    \/ cams'[c].att[a].lines > cams[c].att[a].lines
    \/ cams'[c].att[a].fallback # cams[c].att[a].fallback

\* C25: a launch is taken as started at most once; it is taken as started
\* by the first ready line or by the 5 s timeout, whichever comes first; a
\* ready line or the timeout after that changes nothing else; and an attempt
\* is at its produce calls or has a producer only when its launch was taken
\* as started.
C25_StartedOnce ==
    /\ [](\A c \in Cameras : \A a \in DOMAIN cams[c].att :
             /\ cams[c].att[a].starts <= 1
             /\ cams[c].att[a].started <=> cams[c].att[a].starts = 1
             /\ (\/ cams[c].att[a].pc \in {"videoProduce", "audioProduce"}
                 \/ cams[c].att[a].vp # "none"
                 \/ cams[c].att[a].ap # "none") => cams[c].att[a].started)
    /\ [][\A c \in Cameras : \A a \in DOMAIN cams[c].att :
             /\ (~cams[c].att[a].started /\ cams'[c].att[a].started) =>
                   \/ cams[c].att[a].lines = 0 /\ cams'[c].att[a].lines = 1
                   \/ cams[c].att[a].fallback = "pending" /\ cams'[c].att[a].fallback = "fired"
             /\ (LaunchEvent(c, a) /\ ~cams[c].att[a].started) => cams'[c].att[a].started
             /\ (LaunchEvent(c, a) /\ cams[c].att[a].started) =>
                   cams'[c] = [cams[c] EXCEPT !.att[a].lines = cams'[c].att[a].lines,
                                              !.att[a].fallback = cams'[c].att[a].fallback]]_vars

C25_Witness ==
    \E c \in Cameras : \E a \in DOMAIN cams[c].att :
        /\ cams[c].att[a].starts = 1
        /\ cams[c].att[a].lines = MaxReadyLines
        /\ cams[c].att[a].fallback = "fired"
        /\ cams[c].att[a].vp = "open"
        /\ cams[c].att[a].ap = "open"

\* C26: a camera never has two open video producers nor two open audio
\* producers; the producers map has both of its entries or neither; and when
\* a camera is Producing, the attempt whose producers are recorded in the
\* map has both of them open, each on its own open transport.
C26_OneProducerPerKind ==
    \A c \in Cameras :
        LET att == cams[c].att
        IN  /\ Cardinality({a \in DOMAIN att : att[a].vp = "open"}) <= 1
            /\ Cardinality({a \in DOMAIN att : att[a].ap = "open"}) <= 1
            /\ cams[c].video = 0 <=> cams[c].audio = 0
            /\ Producing(c) =>
                  /\ cams[c].video # 0
                  /\ cams[c].video = cams[c].audio
                  /\ att[cams[c].video].vp = "open" /\ att[cams[c].video].vt = "open"
                  /\ att[cams[c].video].ap = "open" /\ att[cams[c].video].at = "open"

\* C27: every producer of camera i was created with ssrc 11111111 + i
\* (video) or 22222222 + i (audio), on every attempt; and over the cameras
\* that can be supervised the ssrc of the two kinds are pairwise distinct.
C27_SsrcPerCamera ==
    /\ \A c \in Cameras : \A a \in DOMAIN cams[c].att :
          /\ cams[c].att[a].vp # "none" <=> cams[c].att[a].vssrc # 0
          /\ cams[c].att[a].ap # "none" <=> cams[c].att[a].assrc # 0
          /\ cams[c].att[a].vssrc \in {0, VideoSsrcBase + c}
          /\ cams[c].att[a].assrc \in {0, AudioSsrcBase + c}
    /\ \A i \in 1..MaxCams :
          /\ VideoSsrc(i) = VideoSsrcBase + i
          /\ AudioSsrc(i) = AudioSsrcBase + i
          /\ \A j \in 1..MaxCams :
                /\ VideoSsrc(i) # AudioSsrc(j)
                /\ i # j => (VideoSsrc(i) # VideoSsrc(j) /\ AudioSsrc(i) # AudioSsrc(j))

C27_Witness ==
    /\ \E a, b \in DOMAIN cams[1].att :
          /\ a # b
          /\ cams[1].att[a].vssrc = VideoSsrcBase + 1 /\ cams[1].att[a].assrc = AudioSsrcBase + 1
          /\ cams[1].att[b].vssrc = VideoSsrcBase + 1 /\ cams[1].att[b].assrc = AudioSsrcBase + 1
    /\ \E a \in DOMAIN cams[2].att :
          cams[2].att[a].vssrc = VideoSsrcBase + 2 /\ cams[2].att[a].assrc = AudioSsrcBase + 2

C29_WorkerDeathExits ==
    /\ [](host.worker = "died" /\ Running => host.exitTimer = "armed")
    /\ [][ExitTimerFires => host'.process = "exit1"]_vars
    /\ (host.worker = "died") ~> ~Running

C29_Witness == host.worker = "died" /\ host.process = "exit1"

\* C30: with the engine initialised, whether or not rooms exist, a request
\* for the router capabilities is answered with the capability document.
C30_CapabilitiesAnswered ==
    host.worker = "alive" /\ host.reply # "none" => host.reply = "capabilities"


\* C31: when two channels have each joined the same room once, under
\* different peer ids and with neither closed, the room id has one Room:
\* both peers are in the peer map of the Room object the registry holds, and
\* every open router is that Room's router.
C31_OneRoomPerId ==
    \A s, t \in Sockets :
        (/\ s # t
         /\ sock[s].state = "open" /\ sock[t].state = "open"
         /\ pending = <<>>
         /\ Len(peerObj) = 2
         /\ peers[s] # 0 /\ peers[t] # 0
         /\ peerObj[peers[s]].room = peerObj[peers[t]].room
         /\ peerObj[peers[s]].id # peerObj[peers[t]].id)
        => LET ro == rooms[peerObj[peers[s]].room]
           IN  /\ ro # 0
               /\ roomObj[ro].peers[peerObj[peers[s]].id] = peers[s]
               /\ roomObj[ro].peers[peerObj[peers[t]].id] = peers[t]
               /\ \A n \in DOMAIN router : ~router[n].closed => n = roomObj[ro].router


\* C32: once a channel is closed and none of its commands is suspended any
\* more, nothing of it is left: it has no entry in this.peers, its peer is
\* in no registered room's peer map, and every transport, producer and
\* consumer of its peer is closed.  Stated for channels that joined at most
\* once, with peer ids that no two peers share.
C32_ClosedChannelLeavesNothing ==
    \A s \in Sockets :
        (/\ sock[s].state = "closed"
         /\ \A i \in DOMAIN pending : pending[i].s # s
         /\ Cardinality(PeersMadeBy(s)) <= 1
         /\ \A j, k \in DOMAIN peerObj : peerObj[j].id = peerObj[k].id => j = k)
        => /\ peers[s] = 0
           /\ \A k \in PeersMadeBy(s) :
                /\ \A r \in Registered : roomObj[rooms[r]].peers[peerObj[k].id] # k
                /\ \A t \in peerObj[k].transports : transport[t].closed
                /\ \A q \in peerObj[k].producers : producer[q].closed
                /\ \A c \in peerObj[k].consumers : consumer[c].closed


\* C33: when the transcoder of attempt a of a camera exits after a later
\* attempt b of that camera has started, the exit handler leaves b's
\* transports and producers as they are, leaves b's transcoder in the
\* process map, and arms no timer while b is in flight or producing.
C33_StaleExitSparesNewer ==
    [][\A c \in Cameras : \A a, b \in DOMAIN cams[c].att :
          (/\ a < b
           /\ cams[c].att[a].proc \in {"alive", "signalled"}
           /\ cams'[c].att[a].proc = "exited")
          => LET old == cams[c].att[b]
                 new == cams'[c].att[b]
             IN  /\ <<new.vt, new.at, new.vp, new.ap>> = <<old.vt, old.at, old.vp, old.ap>>
                 /\ cams[c].process = b => cams'[c].process = b
                 /\ (old.pc # "end" \/ (old.vp = "open" /\ old.ap = "open"))
                       => cams'[c].timers \subseteq cams[c].timers]_vars


\* C34: a camera has at most one retry timer pending, and none while an
\* attempt of it is past its probe and has not returned (Provisioning,
\* Launching) or while it is Producing.
C34_TimerOnlyWhenRetrying ==
    \A c \in Cameras :
        /\ Cardinality(cams[c].timers) <= 1
        /\ cams[c].timers # {} =>
              /\ \A a \in InFlight(cams[c]) : cams[c].att[a].pc = "probe"
              /\ ~Producing(c)


\* C35: a transcoder that was spawned and has not exited is the one
\* recorded for its camera in the process map.
C35_LiveTranscoderTracked ==
    \A c \in Cameras : \A a \in DOMAIN cams[c].att :
        cams[c].att[a].proc \in {"alive", "signalled"} => cams[c].process = a


\* C36: a connect-transport, produce or consume naming a transport, or a
\* resume-consumer naming a consumer, that another peer holds and the
\* requesting channel's peer does not, is answered with the handler's error
\* event in the same step, and no peer, transport, producer or consumer
\* changes.
C36_OwnObjectsOnly ==
    [][\A s \in Sockets :
         (/\ last'.op \in {"connect-transport", "produce", "consume", "resume-consumer"}
          /\ last'.s = s
          /\ PeerOf(s) # 0
          /\ Len(pending') >= Len(pending)) =>
            LET mine == peerObj[PeerOf(s)]
                others == DOMAIN peerObj \ {PeerOf(s)}
                foreignT == {tid \in 1..MaxTransports : /\ tid \notin mine.transports
                                                        /\ \E k \in others : tid \in peerObj[k].transports}
                foreignC == {c \in 1..MaxConsumers : /\ c \notin mine.consumers
                                                     /\ \E k \in others : c \in peerObj[k].consumers}
            IN  /\ last'.op = "connect-transport" => \A tid \in foreignT :
                      ConnectTransport(s, tid) => Rejected(s, "Failed to connect transport")
                /\ last'.op = "produce" => \A tid \in foreignT :
                      Produce(s, tid) => Rejected(s, "Failed to create producer")
                /\ last'.op = "consume" =>
                      \A tid \in foreignT, q \in 1..MaxProducers, caps \in Caps :
                          Consume(s, tid, q, caps) => Rejected(s, "Failed to create consumer")
                /\ last'.op = "resume-consumer" => \A c \in foreignC :
                      ResumeConsumer(s, c) => Rejected(s, "Failed to resume consumer")]_vars

\* A joined peer without consumers of its own was refused a resume-consumer
\* while another peer holds an open consumer, which is still paused.
C36_Witness ==
    /\ last.op = "resume-consumer"
    /\ last.phase = "done"
    /\ last.out = {ErrorEvent(last.s, "Failed to resume consumer")}
    /\ PeerOf(last.s) # 0
    /\ peerObj[PeerOf(last.s)].consumers = {}
    /\ pending = <<>>
    /\ \E k \in DOMAIN peerObj \ {PeerOf(last.s)} : \E c \in peerObj[k].consumers :
          ~consumer[c].closed /\ consumer[c].paused


\* C37: every consumer in the consumer map of a channel's peer is fed by a
\* producer that is in the producer set of that peer's room.
C37_ConsumersFollowProducers ==
    \A s \in Sockets :
        (PeerOf(s) # 0 /\ RoomOf(s) # 0) =>
            \A c \in peerObj[PeerOf(s)].consumers :
                consumer[c].producer \in roomObj[RoomOf(s)].producers


\* C38: the close of a channel leaves every other channel's peer as it is:
\* its entry in this.peers and its maps, its membership of its room, which
\* stays registered with its router open, its transports and producers and
\* their entries in the room's producer set, and its consumers other than
\* those fed by the leaving peer's producers; and every other room.
C38_DisconnectTouchesOwnPeerOnly ==
    [][\A s \in Sockets :
         (last'.op = "disconnect" /\ last'.s = s /\ sock[s].state = "open") =>
            /\ \A t \in Sockets \ {s} : peers[t] # 0 =>
                  LET k == peers[t]
                      ro == RoomOf(t)
                  IN  /\ peers'[t] = k
                      /\ sock'[t] = sock[t]
                      /\ peerObj'[k] = peerObj[k]
                      /\ (ro # 0 /\ roomObj[ro].peers[peerObj[k].id] = k) =>
                            /\ rooms'[sock[t].roomId] = ro
                            /\ roomObj'[ro].peers[peerObj[k].id] = k
                            /\ router'[roomObj[ro].router] = router[roomObj[ro].router]
                            /\ peerObj[k].producers \cap roomObj[ro].producers
                                  \subseteq roomObj'[ro].producers
                      /\ \A x \in peerObj[k].transports : transport'[x] = transport[x]
                      /\ \A q \in peerObj[k].producers : producer'[q] = producer[q]
                      /\ \A c \in peerObj[k].consumers :
                            consumer'[c] # consumer[c] =>
                                (PeerOf(s) # 0 /\ consumer[c].producer \in peerObj[PeerOf(s)].producers)
            /\ \A r \in RoomIds \ {sock[s].roomId} :
                  /\ rooms'[r] = rooms[r]
                  /\ rooms[r] # 0 => roomObj'[rooms[r]] = roomObj[rooms[r]]]_vars


\* C39: the probe delivers one result, at the latest when its 4 s timer
\* fires, and startRTSPStream waits for exactly that; the result is true
\* only if ffprobe closed with code 0, without an 'error' event and with
\* output that is not blank, before the timer fired; it is false when the
\* timer fires first, on another exit code, after an 'error' event, on
\* blank output and when the spawn throws; and once delivered it never
\* changes, whatever ffprobe does later.
C39_ProbeOneResult ==
    /\ [](\A c \in Cameras : \A a \in DOMAIN cams[c].att :
            LET p == cams[c].att[a].probe
            IN  /\ p.timer = "fired" => p.result # "none"
                /\ p.proc # "running" => p.result # "none"
                /\ p.result = "none" <=> cams[c].att[a].pc = "probe"
                /\ p.result = "true" =>
                      /\ p.proc = "closed" /\ p.code = 0
                      /\ ~p.errored /\ HasStream(p.output))
    /\ [][\A c \in Cameras : \A a \in DOMAIN cams[c].att :
            LET p == cams[c].att[a].probe
                n == cams'[c].att[a].probe
            IN  /\ p.result # "none" => n.result = p.result
                /\ (p.result = "none" /\ n.result = "true") => n.timer = "pending"
                /\ (p.result = "none" /\ n.timer = "fired") => n.result = "false"
                /\ (p.result = "none" /\ n.proc = "none") => n.result = "false"
                /\ (/\ p.result = "none"
                    /\ n.proc = "closed"
                    /\ n.code # 0 \/ n.errored \/ ~HasStream(n.output))
                      => n.result = "false"]_vars

\* A probe whose timer fired first and delivered false, and whose ffprobe
\* closed afterwards with code 0 and a codec name in its output.
C39_Witness ==
    \E c \in Cameras : \E a \in DOMAIN cams[c].att :
        LET p == cams[c].att[a].probe
        IN  /\ p.timer = "fired"
            /\ p.result = "false"
            /\ p.proc = "closed" /\ p.code = 0
            /\ ~p.errored /\ HasStream(p.output)


\* C40: a start() while the bridge is running changes nothing of the bridge;
\* the router is created once; a start() that completes supervises each
\* camera once and finds none supervised before; and a failed start() leaves
\* the flag reset, so that the next start() proceeds.
C40_StartIdempotent ==
    /\ [](startPc = "failed" => ~isRunning)
    /\ [][/\ (isRunning /\ StartAgain) => UNCHANGED <<ingest, signaling>>
          /\ (startPc = "failed" /\ StartAgain) => (isRunning' /\ startPc' = "router")
          /\ mainRouter' # mainRouter => (mainRouter = "none" /\ mainRouter' = "open")
          /\ \A c \in Cameras :
                (startPc = "router" /\ startPc' = "done" /\ c \in Supervised)
                    => (cams[c].att = <<>> /\ Len(cams'[c].att) = 1)]_vars

\* A second start() was refused while the first is awaiting createRouter().
C40_Witness ==
    /\ host.again = "refused"
    /\ startPc = "router"
    /\ isRunning
    /\ mainRouter = "none"

=============================================================================
